---- MODULE Spec2Model ----
(***************************************************************************)
(* A model of the tidy-tuesday analysis scripts.                           *)
(*                                                                         *)
(*   SpecSeason   the date processing of frog_species_map.py               *)
(*                (to_datetime, .dt.month, apply(get_season)).             *)
(*   SpecFrog     main() of frog_mapper.py and of frog_species_map.py,     *)
(*                one action per statement group of main.                  *)
(*   SpecAnalysis main() of frog_species_map.py on larger surveys: two     *)
(*                species with states and dates, or many species.          *)
(*   Spec         the weather dashboard (historic_station.py) under the    *)
(*                reactive runtime: inputs, tabs, invalidation, flush.     *)
(*   SpecPrizes   the literary-prizes dashboard under the same runtime.    *)
(*   SpecImport   the module-level statements of historic_station.py that  *)
(*                build annual_data, data and monthly_data.                *)
(*   SpecRender   the outputs of the weather dashboard on more stations    *)
(*                and years, panel by panel.                               *)
(*   SpecExtreme  the weather dashboard on four years of readings, the     *)
(*                controls changed by the user.                            *)
(***************************************************************************)
EXTENDS Integers, Sequences, FiniteSets, TLC

VARIABLES
    \* ---- frog scripts (2025-09-02) ----
    script,         \* which script runs: "frog_mapper" | "frog_species_map"
    frogID_data,    \* contents of frogID_data.csv: sequence of occurrence rows
    frog_names,     \* contents of frog_names.csv: sequence of name rows
    pc,             \* position of main()
    merged_data,    \* main's `data`: [isNone, rows]
    analysis,       \* results of the analyze_* functions
    log,            \* external interactions and stages of the run, in order
    files,          \* HTML files written so far
    \* ---- date processing ----
    dates_in,       \* an eventDate column as read from the CSV
    season_out,     \* the columns eventDate/month/season computed from it
    \* ---- dashboards (2025-10-21, 2025-10-29) ----
    app,            \* "weather" | "prizes"
    input,          \* value of every input control
    tab,            \* the nav panel shown in the browser
    deps,           \* per node: what it read when it last executed
    stale,          \* nodes invalidated (or never executed) and not yet re-executed
    recomputed,     \* nodes executed by the last step
    invalidated,    \* nodes invalidated by the last step
    lastChanged,    \* the input control whose value the last step changed, or "none"
    tables,         \* the module-level tables (data, monthly_data / prizes)
    started,        \* the module-level tables as they were when the app started
    content,        \* what each node last returned
    pending,        \* update_selectize messages on their way to the browser,
                    \* each with the effect that sent it
    steps,          \* number of user events so far
    decadeLog       \* every (year, decade) pair distribution_plot has written

frogVars == <<script, frogID_data, frog_names, pc, merged_data, analysis, log, files>>
seasonVars == <<dates_in, season_out>>
dashVars == <<app, input, tab, deps, stale, recomputed, invalidated, lastChanged,
              tables, started, content, pending, steps, decadeLog>>
vars == <<frogVars, seasonVars, dashVars>>

(***************************************************************************)
(* Bounds of the model.                                                    *)
(***************************************************************************)
MaxRecs == 5
MaxOther == 1
MaxDates == 2
MaxSteps == 3       \* user events in one dashboard session

(***************************************************************************)
(* Missing values.                                                         *)
(***************************************************************************)
NaN == -9999
NaT == <<>>
NA == "<NA>"

(***************************************************************************)
(* Small helpers on sequences and sets.                                    *)
(***************************************************************************)
RECURSIVE Rep(_, _)
Rep(x, n) == IF n = 0 THEN <<>> ELSE <<x>> \o Rep(x, n - 1)

Range(s) == {s[i] : i \in 1..Len(s)}

Count(s, P(_)) == Cardinality({i \in 1..Len(s) : P(s[i])})

(***************************************************************************)
(* frog_species_map.py: get_season and the date columns.                   *)
(***************************************************************************)
get_season_northern(month) ==
    IF month = NaN THEN "Unknown"
    ELSE IF month \in {12, 1, 2} THEN "Winter"
    ELSE IF month \in {3, 4, 5} THEN "Spring"
    ELSE IF month \in {6, 7, 8} THEN "Summer"
    ELSE "Autumn"

get_season(month) ==
    IF month = NaN THEN "Unknown"
    ELSE IF month \in {12, 1, 2} THEN "Summer"
    ELSE IF month \in {3, 4, 5} THEN "Autumn"
    ELSE IF month \in {6, 7, 8} THEN "Winter"
    ELSE "Spring"

\* pd.to_datetime(..., errors='coerce'): a date is <<year, month>>; anything
\* that is not a date (missing, unparseable, month out of range) becomes NaT.
to_datetime(d) ==
    IF Len(d) = 2 /\ d[2] \in 1..12 THEN d ELSE NaT

\* Series.dt.month: NaN for NaT.
dt_month(t) == IF t = NaT THEN NaN ELSE t[2]

\* lines 28-30 of load_and_process_data: the three date columns of one record
date_columns(d) ==
    LET t == to_datetime(d)
        m == dt_month(t)
    IN  [eventDate |-> t, month |-> m, season |-> get_season(m)]

process_dates(row) == date_columns(row.eventDate) @@ row

(***************************************************************************)
(* Both frog scripts: load_and_process_data.                               *)
(***************************************************************************)
\* pd.merge(frog_id_data, frog_names, on='scientificName', how='left'):
\* every left row once per matching right row, in order; a left row without
\* a match once, with the right columns missing.
RECURSIVE merge_left(_, _)
merge_left(left, right) ==
    IF left = <<>> THEN <<>>
    ELSE LET l == Head(left)
             ms == SelectSeq(right, LAMBDA r : r.scientificName = l.scientificName)
             out == IF ms = <<>>
                    THEN << [commonName |-> NA] @@ l >>
                    ELSE [i \in 1..Len(ms) |-> [commonName |-> ms[i].commonName] @@ l]
         IN  out \o merge_left(Tail(left), right)

\* a dropna that looks at the latitude alone
dropna_latitude_only(rows) == SelectSeq(rows, LAMBDA r : r.decimalLatitude # NaN)

\* DataFrame.dropna(subset=['decimalLatitude', 'decimalLongitude'])
dropna_coords(rows) ==
    SelectSeq(rows, LAMBDA r : r.decimalLatitude # NaN /\ r.decimalLongitude # NaN)

\* the steps of load_and_process_data at which an exception can be raised
Faults(s) ==
    {"none", "read_frogID_data", "read_frog_names", "merge", "dropna"}
        \cup (IF s = "frog_species_map" THEN {"to_datetime"} ELSE {})

Ev(kind, what) == [kind |-> kind, what |-> what]

None == [isNone |-> TRUE, rows |-> <<>>]
Frame(rows) == [isNone |-> FALSE, rows |-> rows]

\* what load_and_process_data does up to (and including) the failing step
load_events(s, fault) ==
    LET r1 == << Ev("read_csv", "frogID_data.csv") >>
        r2 == << Ev("read_csv", "frog_names.csv") >>
        loaded == << Ev("stdout", "Loaded occurrence records"),
                     Ev("stdout", "Loaded species names") >>
        merged == IF s = "frog_mapper"
                  THEN << Ev("stdout", "Merged dataset contains") >> ELSE <<>>
        final == << Ev("clean", "dropna") >> \o
                 (IF s = "frog_mapper"
                  THEN << Ev("stdout", "After removing records with missing coordinates") >>
                  ELSE << Ev("stdout", "Processed dataset contains") >>)
        err == << Ev("exception", fault), Ev("stdout", "Error") >>
    IN  CASE fault = "read_frogID_data" -> r1 \o err
          [] fault = "read_frog_names" -> r1 \o r2 \o err
          [] fault = "merge" -> r1 \o r2 \o loaded \o err
          [] fault \in {"dropna", "to_datetime"} -> r1 \o r2 \o loaded \o merged \o err
          [] OTHER -> r1 \o r2 \o loaded \o merged \o final

\* the value load_and_process_data returns
load_and_process_data(s, ids, names, fault) ==
    IF fault # "none" THEN None
    ELSE LET kept == dropna_coords(merge_left(ids, names))
         IN  IF s = "frog_species_map"
             THEN Frame([i \in 1..Len(kept) |-> process_dates(kept[i])])
             ELSE Frame(kept)

(***************************************************************************)
(* frog_species_map.py: the three analyses.                                *)
(***************************************************************************)
EndemicMinRecords == 3
SeasonMinRecords == 5

\* Series.unique(): the distinct values in order of first appearance
RECURSIVE unique(_)
unique(s) ==
    IF s = <<>> THEN <<>>
    ELSE LET u == unique(SubSeq(s, 1, Len(s) - 1))
             x == s[Len(s)]
         IN  IF x \in Range(u) THEN u ELSE Append(u, x)

species_of(rows) == unique([i \in 1..Len(rows) |-> rows[i].scientificName])

rows_of(rows, species) == SelectSeq(rows, LAMBDA r : r.scientificName = species)

\* x if pd.notna(x) else 'Unknown'
known_name(x) == IF x = NA THEN "Unknown" ELSE x

\* the values of the state column of a species, a missing one among them
states_of_with_missing(rows, species) ==
    {r.stateProvince : r \in Range(rows_of(rows, species))}

\* the states a species was recorded in (missing states left out)
states_of(rows, species) ==
    {r.stateProvince : r \in {x \in Range(rows_of(rows, species)) : x.stateProvince # NA}}

\* analyze_endemism: per state, the species found in that state only, with
\* at least three records, in order of first appearance
analyze_endemism(rows) ==
    LET sp == species_of(rows)
        endemic(x) == Cardinality(states_of(rows, x)) = 1
                      /\ Len(rows_of(rows, x)) >= EndemicMinRecords
        sts == UNION {states_of(rows, sp[i]) : i \in {j \in 1..Len(sp) : endemic(sp[j])}}
    IN  [st \in sts |->
            LET mine == SelectSeq(sp, LAMBDA x : endemic(x) /\ states_of(rows, x) = {st})
            IN  [i \in 1..Len(mine) |->
                    [species |-> mine[i],
                     common_name |-> known_name(rows_of(rows, mine[i])[1].commonName),
                     records |-> Len(rows_of(rows, mine[i]))]]]

\* the season labels in the column order of unstack() (sorted)
SeasonOrder == <<"Autumn", "Spring", "Summer", "Winter">>

season_count(rows, species, season) ==
    Count(rows, LAMBDA r : r.scientificName = species /\ r.season = season)

\* the first label, in column order, that has a record at all
first_season(cnt) ==
    SeasonOrder[CHOOSE i \in 1..Len(SeasonOrder) :
                    /\ cnt[SeasonOrder[i]] > 0
                    /\ \A j \in 1..(i - 1) : cnt[SeasonOrder[j]] = 0]

\* Series.idxmax(): the first label, in column order, whose count is largest
idxmax(cnt) ==
    LET best == CHOOSE i \in 1..Len(SeasonOrder) :
                    /\ \A j \in 1..Len(SeasonOrder) : cnt[SeasonOrder[j]] <= cnt[SeasonOrder[i]]
                    /\ \A j \in 1..(i - 1) : cnt[SeasonOrder[j]] < cnt[SeasonOrder[i]]
    IN  SeasonOrder[best]

\* analyze_calling_seasons: None without any dated record, else the species
\* with at least five dated records
analyze_calling_seasons(rows) ==
    LET seasonal_data == SelectSeq(rows, LAMBDA r : r.month # NaN)
        sp == Range(species_of(seasonal_data))
        cnt(x) == [se \in Range(SeasonOrder) |-> season_count(seasonal_data, x, se)]
        total(x) == cnt(x)["Autumn"] + cnt(x)["Spring"] + cnt(x)["Summer"] + cnt(x)["Winter"]
    IN  IF Len(seasonal_data) = 0
        THEN [isNone |-> TRUE, prefs |-> <<>>]
        ELSE [isNone |-> FALSE,
              prefs |-> [x \in {y \in sp : total(y) >= SeasonMinRecords} |->
                            [total_records |-> total(x),
                             peak_season |-> idxmax(cnt(x)),
                             season_counts |-> cnt(x),
                             common_name |-> rows_of(rows, x)[1].commonName]]]

Max(S) == CHOOSE x \in S : \A y \in S : y <= x
Min(S) == CHOOSE x \in S : \A y \in S : x <= y

\* calculate_geographic_range and analyze_geographic_ranges
analyze_geographic_ranges(rows) ==
    [x \in Range(species_of(rows)) |->
        LET mine == rows_of(rows, x)
            lats == {r.decimalLatitude : r \in Range(mine)}
            lons == {r.decimalLongitude : r \in Range(mine)}
            lat_range == Max(lats) - Min(lats)
            lon_range == Max(lons) - Min(lons)
        IN  [range_area |-> lat_range * lon_range * 111 * 111,
             lat_range |-> lat_range,
             lon_range |-> lon_range,
             num_locations |-> Len(mine),
             num_states |-> Cardinality(states_of(rows, x)),
             common_name |-> known_name(mine[1].commonName)]]

RangeMapTop == 5
RareMaxRecords == 5
SummaryTop == 10

\* sorted(items, key=..., reverse=...): Python's sort is stable, and stays
\* stable under reverse; `items` are the keys of the dict in insertion order
sorted_items(items, key, reverse) ==
    LET before(i, j) ==
            \/ IF reverse THEN key[items[i]] > key[items[j]]
                          ELSE key[items[i]] < key[items[j]]
            \/ key[items[i]] = key[items[j]] /\ i < j
        pos(i) == 1 + Cardinality({j \in 1..Len(items) : before(j, i)})
    IN  [p \in 1..Len(items) |-> items[CHOOSE i \in 1..Len(items) : pos(i) = p]]

\* s[:n]
slice(s, n) == SubSeq(s, 1, IF n < Len(s) THEN n ELSE Len(s))

NoAnalysis ==
    [endemic_species |-> <<>>,
     seasonal_preferences |-> [isNone |-> TRUE, prefs |-> <<>>],
     range_analysis |-> <<>>,
     range_map |-> [wide |-> <<>>, rare |-> <<>>]]

\* the widest species as analyze_geographic_ranges prints them (line 181)
widest_species_summary(rows, range_analysis) ==
    slice(sorted_items(species_of(rows),
                       [x \in DOMAIN range_analysis |-> range_analysis[x].range_area],
                       TRUE),
          SummaryTop)

\* create_range_comparison_map, line 321
widest_species(rows, range_analysis) ==
    slice(sorted_items(species_of(rows),
                       [x \in DOMAIN range_analysis |-> range_analysis[x].range_area],
                       TRUE),
          RangeMapTop)

\* create_range_comparison_map, lines 322-323
rarest_species(rows, range_analysis) ==
    SelectSeq(slice(sorted_items(species_of(rows),
                                 [x \in DOMAIN range_analysis |->
                                     range_analysis[x].num_locations],
                                 FALSE),
                    RangeMapTop),
              LAMBDA x : range_analysis[x].num_locations <= RareMaxRecords)

\* one folium.Marker per row of each species of the list, in order
RECURSIVE markers(_, _, _)
markers(rows, species_list, label) ==
    IF species_list = <<>> THEN <<>>
    ELSE LET species_data == rows_of(rows, Head(species_list))
         IN  [i \in 1..Len(species_data) |->
                 [popup |-> label, species |-> Head(species_list),
                  location |-> <<species_data[i].decimalLatitude,
                                 species_data[i].decimalLongitude>>]]
             \o markers(rows, Tail(species_list), label)

\* create_range_comparison_map(data, range_analysis): the markers of the map
create_range_comparison_map(rows, range_analysis) ==
    [wide |-> markers(rows, widest_species(rows, range_analysis), "WIDE RANGE SPECIES"),
     rare |-> markers(rows, rarest_species(rows, range_analysis), "RARE SPECIES")]

\* Python truthiness of a dict / of None
truthy(d) == DOMAIN d # {}

(***************************************************************************)
(* main() of the two frog scripts.                                         *)
(***************************************************************************)
\* a main that builds its first map before its last analysis
main_order_early_map(s) ==
    IF s = "frog_mapper"
    THEN <<"load", "create_frog_map", "generate_species_summary", "save_frog_map",
           "prompt", "create_heatmap", "save_heatmap", "done">>
    ELSE <<"load", "analyze_endemism", "analyze_calling_seasons",
           "create_endemism_map", "analyze_geographic_ranges", "save_endemism_map",
           "create_seasonal_map", "save_seasonal_map", "create_range_comparison_map",
           "save_range_comparison_map", "research_summary", "done">>

\* the statements of main, in program order
main_order(s) ==
    IF s = "frog_mapper"
    THEN <<"load", "generate_species_summary", "create_frog_map", "save_frog_map",
           "prompt", "create_heatmap", "save_heatmap", "done">>
    ELSE <<"load", "analyze_endemism", "analyze_calling_seasons",
           "analyze_geographic_ranges", "create_endemism_map", "save_endemism_map",
           "create_seasonal_map", "save_seasonal_map", "create_range_comparison_map",
           "save_range_comparison_map", "research_summary", "done">>

\* the statement after p
after(s, p) ==
    LET o == main_order(s)
        i == CHOOSE k \in 1..Len(o) : o[k] = p
    IN  o[i + 1]

\* a main that goes on without looking at what load_and_process_data returned
after_load_unchecked(s, d) == after(s, "load")

\* `if data is None: return`
after_load(s, d) == IF d.isNone THEN "done" ELSE after(s, "load")

\* str.lower() on the answers the model types
lower(a) == CASE a = "Y" -> "y" [] a = "N" -> "n" [] OTHER -> a

\* the same test without lower()
wants_heatmap_exact(a) == a = "y"

\* `if create_heatmap.lower() == 'y'`
wants_heatmap(a) == lower(a) = "y"

Answers == {"y", "Y", "n", "N", ""}

\* pd.to_datetime over the eventDate column (generate_species_summary, line 153)
with_datetimes(rows) ==
    [i \in 1..Len(rows) |-> [eventDate |-> to_datetime(rows[i].eventDate)] @@ rows[i]]

has_date(rows) == \E i \in 1..Len(rows) : to_datetime(rows[i].eventDate) # NaT

Main_Load ==
    /\ pc = "load"
    /\ \E fault \in Faults(script) :
        LET d == load_and_process_data(script, frogID_data, frog_names, fault)
        IN  /\ merged_data' = d
            /\ log' = log \o << Ev("stdout", "banner") >> \o load_events(script, fault)
            /\ pc' = after_load(script, d)
    /\ UNCHANGED <<seasonVars, dashVars, script, frogID_data, frog_names, analysis, files>>

\* frog_mapper: generate_species_summary(data); NaT.strftime raises when no
\* record has a date
FM_Summary ==
    /\ script = "frog_mapper" /\ pc = "generate_species_summary"
    /\ log' = log \o << Ev("analysis", "generate_species_summary"),
                        Ev("stdout", "FROG SPECIES SUMMARY") >>
    /\ merged_data' = Frame(with_datetimes(merged_data.rows))
    /\ pc' = IF has_date(merged_data.rows) THEN after(script, pc) ELSE "crashed"
    /\ UNCHANGED <<seasonVars, dashVars, script, frogID_data, frog_names, analysis, files>>

FM_CreateMap ==
    /\ script = "frog_mapper" /\ pc = "create_frog_map"
    /\ log' = log \o << Ev("stdout", "Creating interactive map"),
                        Ev("build_map", "frog_species_map.html") >>
    /\ pc' = after(script, pc)
    /\ UNCHANGED <<seasonVars, dashVars, script, frogID_data, frog_names, merged_data, analysis, files>>

FM_SaveMap ==
    /\ script = "frog_mapper" /\ pc = "save_frog_map"
    /\ files' = files \cup {"frog_species_map.html"}
    /\ log' = log \o << Ev("write_html", "frog_species_map.html"),
                        Ev("stdout", "Map saved") >>
    /\ pc' = after(script, pc)
    /\ UNCHANGED <<seasonVars, dashVars, script, frogID_data, frog_names, merged_data, analysis>>

\* input("Would you like to create a density heatmap as well? (y/n): ")
FM_Prompt ==
    /\ script = "frog_mapper" /\ pc = "prompt"
    /\ \/ \E a \in Answers :
            /\ log' = log \o << Ev("stdout", "prompt"), Ev("read_stdin", a) >>
            /\ pc' = IF wants_heatmap(a) THEN after(script, pc) ELSE "done"
       \/ \* standard input is closed: input() raises EOFError
          /\ log' = log \o << Ev("stdout", "prompt"), Ev("read_stdin", "EOF") >>
          /\ pc' = "crashed"
    /\ UNCHANGED <<seasonVars, dashVars, script, frogID_data, frog_names, merged_data, analysis, files>>

FM_CreateHeatmap ==
    /\ script = "frog_mapper" /\ pc = "create_heatmap"
    /\ log' = log \o << Ev("stdout", "Creating density heatmap"),
                        Ev("build_map", "frog_species_heatmap.html") >>
    /\ pc' = after(script, pc)
    /\ UNCHANGED <<seasonVars, dashVars, script, frogID_data, frog_names, merged_data, analysis, files>>

FM_SaveHeatmap ==
    /\ script = "frog_mapper" /\ pc = "save_heatmap"
    /\ files' = files \cup {"frog_species_heatmap.html"}
    /\ log' = log \o << Ev("write_html", "frog_species_heatmap.html"),
                        Ev("stdout", "Heatmap saved") >>
    /\ pc' = after(script, pc)
    /\ UNCHANGED <<seasonVars, dashVars, script, frogID_data, frog_names, merged_data, analysis>>

SM_Endemism ==
    /\ script = "frog_species_map" /\ pc = "analyze_endemism"
    /\ analysis' = [analysis EXCEPT !.endemic_species = analyze_endemism(merged_data.rows)]
    /\ log' = log \o << Ev("analysis", "analyze_endemism"),
                        Ev("stdout", "ENDEMISM ANALYSIS") >>
    /\ pc' = after(script, pc)
    /\ UNCHANGED <<seasonVars, dashVars, script, frogID_data, frog_names, merged_data, files>>

SM_CallingSeasons ==
    /\ script = "frog_species_map" /\ pc = "analyze_calling_seasons"
    /\ analysis' = [analysis EXCEPT
                        !.seasonal_preferences = analyze_calling_seasons(merged_data.rows)]
    /\ log' = log \o << Ev("analysis", "analyze_calling_seasons"),
                        Ev("stdout", "CALLING SEASON ANALYSIS") >>
    /\ pc' = after(script, pc)
    /\ UNCHANGED <<seasonVars, dashVars, script, frogID_data, frog_names, merged_data, files>>

SM_GeographicRanges ==
    /\ script = "frog_species_map" /\ pc = "analyze_geographic_ranges"
    /\ analysis' = [analysis EXCEPT
                        !.range_analysis = analyze_geographic_ranges(merged_data.rows)]
    /\ log' = log \o << Ev("analysis", "analyze_geographic_ranges"),
                        Ev("stdout", "GEOGRAPHIC RANGE ANALYSIS") >>
    /\ pc' = after(script, pc)
    /\ UNCHANGED <<seasonVars, dashVars, script, frogID_data, frog_names, merged_data, files>>

\* `if endemic_species:` create_endemism_map(...)
SM_CreateEndemismMap ==
    /\ script = "frog_species_map" /\ pc = "create_endemism_map"
    /\ IF truthy(analysis.endemic_species)
       THEN /\ log' = log \o << Ev("build_map", "frog_endemism_map.html") >>
            /\ pc' = after(script, pc)
       ELSE /\ log' = log
            /\ pc' = after(script, after(script, pc))
    /\ UNCHANGED <<seasonVars, dashVars, script, frogID_data, frog_names, merged_data, analysis, files>>

SM_SaveEndemismMap ==
    /\ script = "frog_species_map" /\ pc = "save_endemism_map"
    /\ files' = files \cup {"frog_endemism_map.html"}
    /\ log' = log \o << Ev("write_html", "frog_endemism_map.html"),
                        Ev("stdout", "Endemic species map saved") >>
    /\ pc' = after(script, pc)
    /\ UNCHANGED <<seasonVars, dashVars, script, frogID_data, frog_names, merged_data, analysis>>

\* `if seasonal_preferences:` create_seasonal_map(...)
SM_CreateSeasonalMap ==
    /\ script = "frog_species_map" /\ pc = "create_seasonal_map"
    /\ IF truthy(analysis.seasonal_preferences.prefs)
       THEN /\ log' = log \o << Ev("build_map", "frog_seasonal_map.html") >>
            /\ pc' = after(script, pc)
       ELSE /\ log' = log
            /\ pc' = after(script, after(script, pc))
    /\ UNCHANGED <<seasonVars, dashVars, script, frogID_data, frog_names, merged_data, analysis, files>>

SM_SaveSeasonalMap ==
    /\ script = "frog_species_map" /\ pc = "save_seasonal_map"
    /\ files' = files \cup {"frog_seasonal_map.html"}
    /\ log' = log \o << Ev("write_html", "frog_seasonal_map.html"),
                        Ev("stdout", "Seasonal calling map saved") >>
    /\ pc' = after(script, pc)
    /\ UNCHANGED <<seasonVars, dashVars, script, frogID_data, frog_names, merged_data, analysis>>

\* create_range_comparison_map(data, range_analysis): with no record left the
\* map centre is the mean of an empty column, NaN, which folium.Map either
\* rejects (ValueError) or accepts, depending on its version
SM_CreateRangeMap ==
    /\ script = "frog_species_map" /\ pc = "create_range_comparison_map"
    /\ \/ /\ log' = log \o << Ev("build_map", "frog_range_comparison_map.html") >>
          /\ analysis' = [analysis EXCEPT
                              !.range_map = create_range_comparison_map(
                                                merged_data.rows, analysis.range_analysis)]
          /\ pc' = after(script, pc)
       \/ /\ Len(merged_data.rows) = 0
          /\ log' = log
          /\ analysis' = analysis
          /\ pc' = "crashed"
    /\ UNCHANGED <<seasonVars, dashVars, script, frogID_data, frog_names, merged_data, files>>

SM_SaveRangeMap ==
    /\ script = "frog_species_map" /\ pc = "save_range_comparison_map"
    /\ files' = files \cup {"frog_range_comparison_map.html"}
    /\ log' = log \o << Ev("write_html", "frog_range_comparison_map.html"),
                        Ev("stdout", "Range comparison map saved") >>
    /\ pc' = after(script, pc)
    /\ UNCHANGED <<seasonVars, dashVars, script, frogID_data, frog_names, merged_data, analysis>>

SM_Summary ==
    /\ script = "frog_species_map" /\ pc = "research_summary"
    /\ log' = log \o << Ev("stdout", "RESEARCH SUMMARY") >>
    /\ pc' = after(script, pc)
    /\ UNCHANGED <<seasonVars, dashVars, script, frogID_data, frog_names, merged_data, analysis, files>>

(***************************************************************************)
(* The inputs of the frog scripts and the specification SpecFrog.          *)
(***************************************************************************)
OccurrenceRows ==
    [scientificName : {"A", "B"},
     decimalLatitude : {NaN, -33},
     decimalLongitude : {NaN, 151},
     eventDate : {<<>>, <<2023, 1>>},
     stateProvince : {"NSW", "VIC"}]

\* up to MaxRecs records of species A that share one shape, then up to
\* MaxOther records of any shape
OccurrenceTables ==
    {Rep(b1, n1) \o Rep(b2, n2) :
        b1 \in {r \in OccurrenceRows : r.scientificName = "A"},
        b2 \in OccurrenceRows, n1 \in 0..MaxRecs, n2 \in 0..MaxOther}

NameRows ==
    << [scientificName |-> "A", commonName |-> "a frog"],
       [scientificName |-> "A", commonName |-> "another a frog"] >>

\* frog_names.csv: any sub-list of NameRows (species B never has a name)
NameTables ==
    {SelectSeq(NameRows, LAMBDA r : r.commonName \in keep) :
        keep \in SUBSET {NameRows[i].commonName : i \in 1..Len(NameRows)}}

FrogIdle ==
    /\ script = "none" /\ frogID_data = <<>> /\ frog_names = <<>> /\ pc = "idle"
    /\ merged_data = None /\ analysis = NoAnalysis /\ log = <<>> /\ files = {}

SeasonIdle == dates_in = <<>> /\ season_out = <<>>

DashIdle ==
    /\ app = "none" /\ input = <<>> /\ tab = 0 /\ deps = <<>> /\ stale = {}
    /\ recomputed = {} /\ invalidated = {} /\ lastChanged = "none"
    /\ tables = <<>> /\ started = <<>> /\ content = <<>> /\ pending = <<>> /\ steps = 0
    /\ decadeLog = {}

InitFrog ==
    /\ script \in {"frog_mapper", "frog_species_map"}
    /\ frogID_data \in OccurrenceTables
    /\ frog_names \in NameTables
    /\ pc = "load"
    /\ merged_data = None /\ analysis = NoAnalysis /\ log = <<>> /\ files = {}
    /\ SeasonIdle /\ DashIdle

NextFrog ==
    \/ Main_Load
    \/ FM_Summary \/ FM_CreateMap \/ FM_SaveMap \/ FM_Prompt
    \/ FM_CreateHeatmap \/ FM_SaveHeatmap
    \/ SM_Endemism \/ SM_CallingSeasons \/ SM_GeographicRanges
    \/ SM_CreateEndemismMap \/ SM_SaveEndemismMap
    \/ SM_CreateSeasonalMap \/ SM_SaveSeasonalMap
    \/ SM_CreateRangeMap \/ SM_SaveRangeMap \/ SM_Summary

SpecFrog == InitFrog /\ [][NextFrog]_vars

(***************************************************************************)
(* frog_species_map.py on larger surveys: SpecAnalysis.                    *)
(***************************************************************************)
MaxSame == 3
MaxSpecies == 6

\* records with both coordinates: any state or none, no date or a date in
\* January (summer) or April (autumn)
SurveyRows ==
    [scientificName : {"A", "B"},
     decimalLatitude : {-33},
     decimalLongitude : {151},
     eventDate : {<<>>, <<2023, 1>>, <<2023, 4>>},
     stateProvince : {"NSW", "VIC", NA}]

\* up to MaxRecs records of species A that share one shape, then up to
\* MaxSame records of another shape, of A or of B
TwoSpeciesSurveys ==
    {Rep(b1, n1) \o Rep(b2, n2) :
        b1 \in {r \in SurveyRows : r.scientificName = "A"},
        b2 \in SurveyRows, n1 \in 0..MaxRecs, n2 \in 0..MaxSame}

SpeciesNames == <<"S1", "S2", "S3", "S4", "S5", "S6", "S7", "S8">>

\* the records of one species of a many-species survey: one record, two
\* records one degree apart, or six records two degrees apart
SpeciesRecords(x, shape) ==
    LET at(d) == [scientificName |-> x, decimalLatitude |-> -33 + d,
                  decimalLongitude |-> 151 + d, eventDate |-> <<>>,
                  stateProvince |-> "NSW"]
    IN  CASE shape = 1 -> << at(0) >>
          [] shape = 2 -> << at(0), at(1) >>
          [] OTHER -> << at(0), at(2), at(0), at(2), at(0), at(2) >>

RECURSIVE concat(_)
concat(ss) == IF ss = <<>> THEN <<>> ELSE Head(ss) \o concat(Tail(ss))

\* MaxSpecies species, each with one of the three shapes
ManySpeciesSurveys ==
    {concat([i \in 1..MaxSpecies |-> SpeciesRecords(SpeciesNames[i], shapes[i])]) :
        shapes \in [1..MaxSpecies -> 1..3]}

InitAnalysis ==
    /\ script = "frog_species_map"
    /\ frogID_data \in TwoSpeciesSurveys \cup ManySpeciesSurveys
    /\ frog_names = << NameRows[1] >>
    /\ pc = "load"
    /\ merged_data = None /\ analysis = NoAnalysis /\ log = <<>> /\ files = {}
    /\ SeasonIdle /\ DashIdle

NextAnalysis ==
    \/ Main_Load
    \/ SM_Endemism \/ SM_CallingSeasons \/ SM_GeographicRanges
    \/ SM_CreateEndemismMap \/ SM_SaveEndemismMap
    \/ SM_CreateSeasonalMap \/ SM_SaveSeasonalMap
    \/ SM_CreateRangeMap \/ SM_SaveRangeMap \/ SM_Summary

SpecAnalysis == InitAnalysis /\ [][NextAnalysis]_vars

(***************************************************************************)
(* The date columns alone: SpecSeason.                                     *)
(***************************************************************************)
\* what an eventDate cell can hold: nothing, or a year and a month number
\* (months 0 and 13 are not dates)
DateValues == {<<>>} \cup {<<2023, m>> : m \in 0..13}

DateColumns == UNION {[1..n -> DateValues] : n \in 0..MaxDates}

InitSeason ==
    /\ dates_in \in DateColumns
    /\ season_out = <<>>
    /\ FrogIdle /\ DashIdle

\* merged_data['eventDate'], ['month'], ['season'] for every record
ProcessDates ==
    /\ season_out = <<>> /\ dates_in # <<>>
    /\ season_out' = [i \in 1..Len(dates_in) |-> date_columns(dates_in[i])]
    /\ UNCHANGED <<dates_in, frogVars, dashVars>>

NextSeason == ProcessDates

SpecSeason == InitSeason /\ [][NextSeason]_vars

(***************************************************************************)
(* Claims about the frog scripts.                                          *)
(***************************************************************************)
LogIndex == 1..Len(log)

\* C1: get_season maps every month 1..12 to the season of the Southern-
\* Hemisphere legend (12,1,2 Summer; 3,4,5 Autumn; 6,7,8 Winter; 9,10,11
\* Spring), a missing month to 'Unknown', and no month of 1..12 to 'Unknown'.
C1_SeasonOfMonth ==
    \A i \in 1..Len(season_out) :
        LET m == season_out[i].month
            se == season_out[i].season
        IN  /\ m \in {12, 1, 2} => se = "Summer"
            /\ m \in {3, 4, 5} => se = "Autumn"
            /\ m \in {6, 7, 8} => se = "Winter"
            /\ m \in {9, 10, 11} => se = "Spring"
            /\ m = NaN => se = "Unknown"
            /\ se = "Unknown" => m \notin 1..12
            /\ m \in 1..12 \/ m = NaN

\* a December record and a record without a date have both been processed
C1_Witness ==
    /\ Len(season_out) = 2
    /\ season_out[1].month = 12 /\ season_out[1].season = "Summer"
    /\ season_out[2].month = NaN /\ season_out[2].season = "Unknown"

Loaded == pc # "load" /\ ~merged_data.isNone

\* C2: the table load_and_process_data returns has at most as many rows as
\* frogID_data, and as many as any other run on the same two inputs returns.
C2_RowCountBounded ==
    Loaded =>
        /\ Len(merged_data.rows) <= Len(frogID_data)
        /\ Len(merged_data.rows)
             = Len(load_and_process_data(script, frogID_data, frog_names, "none").rows)

Raised == \E i \in LogIndex : log[i].kind = "exception"

\* C7: when a step of load_and_process_data raises, the function prints a
\* message and returns None and main returns at once: no analysis, no map,
\* no HTML file in that run.
C7_LoadFailureReturnsEarly ==
    Raised =>
        /\ merged_data.isNone
        /\ pc = "done"
        /\ files = {}
        /\ log[Len(log)] = Ev("stdout", "Error")
        /\ log[Len(log) - 1].kind = "exception"
        /\ \A i \in LogIndex : log[i].kind \notin {"analysis", "build_map", "write_html"}

\* dropna raised (a step after both reads) and main has returned
C7_Witness ==
    /\ pc = "done"
    /\ \E i \in LogIndex : log[i] = Ev("exception", "dropna")

ExpectedFiles(s, ids, names, answer) ==
    LET d == load_and_process_data(s, ids, names, "none").rows
    IN  IF s = "frog_mapper"
        THEN {"frog_species_map.html"}
                \cup (IF lower(answer) = "y" THEN {"frog_species_heatmap.html"} ELSE {})
        ELSE {"frog_range_comparison_map.html"}
                \cup (IF truthy(analyze_endemism(d))
                      THEN {"frog_endemism_map.html"} ELSE {})
                \cup (IF truthy(analyze_calling_seasons(d).prefs)
                      THEN {"frog_seasonal_map.html"} ELSE {})

\* the answer read from standard input ("" when none was read)
AnswerRead ==
    IF \E i \in LogIndex : log[i].kind = "read_stdin"
    THEN log[CHOOSE i \in LogIndex : log[i].kind = "read_stdin"].what
    ELSE ""

C9_FlatPipeline ==
    \A i, j \in LogIndex :
        i < j =>
            /\ ~(log[i].kind = "build_map" /\ log[j].kind \in {"read_csv", "clean", "analysis"})
            /\ ~(log[i].kind = "write_html" /\ log[j].kind = "build_map")

NumAnalyses(s) == IF s = "frog_mapper" THEN 1 ELSE 3

\* C9, amended: no map is built before both reads, the cleaning and all
\* analyses of the script have finished; every HTML file is written right
\* after the construction of its own map (the next map is built after it).
C9_StageOrder ==
    /\ \A j \in LogIndex :
          log[j].kind = "build_map" =>
              /\ Cardinality({i \in 1..(j - 1) : log[i].kind = "read_csv"}) = 2
              /\ Cardinality({i \in 1..(j - 1) : log[i].kind = "clean"}) = 1
              /\ Cardinality({i \in 1..(j - 1) : log[i].kind = "analysis"}) = NumAnalyses(script)
              /\ \A i \in LogIndex :
                    i > j => log[i].kind \notin {"read_csv", "clean", "analysis"}
    /\ \A j \in LogIndex :
          log[j].kind = "write_html" =>
              \E i \in 1..(j - 1) :
                  /\ log[i] = Ev("build_map", log[j].what)
                  /\ \A k \in (i + 1)..(j - 1) : log[k].kind \notin {"build_map", "write_html"}

\* frog_species_map wrote all three maps
C9_Witness ==
    /\ script = "frog_species_map" /\ pc = "done"
    /\ files = {"frog_endemism_map.html", "frog_seasonal_map.html",
                "frog_range_comparison_map.html"}

\* the occurrence records, merged with the names, that have both coordinates
WithCoordinates ==
    SelectSeq(merge_left(frogID_data, frog_names),
              LAMBDA r : r.decimalLatitude # NaN /\ r.decimalLongitude # NaN)

\* C11: no record with a missing decimalLatitude or decimalLongitude is in
\* the table load_and_process_data returns, in either script, and the range
\* metrics of a species count and span only records that have both
\* coordinates.
C11_NoMissingCoordinates ==
    /\ Loaded =>
          \A i \in 1..Len(merged_data.rows) :
              /\ merged_data.rows[i].decimalLatitude # NaN
              /\ merged_data.rows[i].decimalLongitude # NaN
    /\ \A x \in DOMAIN analysis.range_analysis :
          /\ analysis.range_analysis[x].num_locations =
                Count(WithCoordinates, LAMBDA r : r.scientificName = x)
          /\ analysis.range_analysis[x].lat_range = 0
          /\ analysis.range_analysis[x].lon_range = 0

\* records without a coordinate were read, others survived, and the run with
\* the range analysis has finished
C11_Witness ==
    /\ script = "frog_species_map" /\ pc = "done" /\ Loaded
    /\ Len(merged_data.rows) > 0
    /\ \E i \in 1..Len(frogID_data) : frogID_data[i].decimalLongitude = NaN
    /\ DOMAIN analysis.range_analysis # {}

\* the stage has run
Ran(kind, what) == \E i \in 1..Len(log) : log[i] = Ev(kind, what)

SurveySpecies == {"A", "B"} \cup Range(SpeciesNames)

\* the records of a species in the table the analyses are given
RecordsOf(x) ==
    {i \in 1..Len(merged_data.rows) : merged_data.rows[i].scientificName = x}

\* the states a species was recorded in
RecordedIn(x) == {merged_data.rows[i].stateProvince : i \in RecordsOf(x)} \ {NA}

ListedUnder(x, st) ==
    /\ st \in DOMAIN analysis.endemic_species
    /\ \E i \in 1..Len(analysis.endemic_species[st]) :
          analysis.endemic_species[st][i].species = x

\* C13: analyze_endemism lists a species under state S if and only if S is
\* the only state the species was recorded in and the table it is given has
\* at least 3 records of the species; it lists a species once, with its
\* number of records, and only under a state.
C13_EndemicIff ==
    Ran("analysis", "analyze_endemism") =>
        /\ \A x \in SurveySpecies : \A st \in {"NSW", "VIC", NA} :
              ListedUnder(x, st) <=>
                  (RecordedIn(x) = {st} /\ Cardinality(RecordsOf(x)) >= 3)
        /\ \A st \in DOMAIN analysis.endemic_species :
              \A i, j \in 1..Len(analysis.endemic_species[st]) :
                  /\ analysis.endemic_species[st][i].records =
                        Cardinality(RecordsOf(analysis.endemic_species[st][i].species))
                  /\ analysis.endemic_species[st][i].species =
                        analysis.endemic_species[st][j].species => i = j

\* species A is listed with records in one state and records without a
\* state, while species B has three records and no state
C13_Witness ==
    /\ Ran("analysis", "analyze_endemism")
    /\ ListedUnder("A", "NSW")
    /\ \E i \in RecordsOf("A") : merged_data.rows[i].stateProvince = NA
    /\ ~ListedUnder("B", "NSW") /\ ~ListedUnder("B", "VIC")

\* the records of a species that have a known month
DatedRecordsOf(x) == {i \in RecordsOf(x) : merged_data.rows[i].eventDate # NaT}

\* the dated records of a species whose month lies in the season
RecordsInSeason(x, se) ==
    {i \in DatedRecordsOf(x) : get_season(merged_data.rows[i].eventDate[2]) = se}

\* C14: analyze_calling_seasons returns None exactly when no record has a
\* known month; otherwise a species is in seasonal_preferences if and only if
\* it has at least 5 records with a known month, its total_records is the
\* sum of its per-season counts (and the number of its dated records), and no
\* season has more records of the species than its peak_season.
C14_SeasonalPreferences ==
    Ran("analysis", "analyze_calling_seasons") =>
        LET result == analysis.seasonal_preferences
        IN  /\ result.isNone <=> (\A x \in SurveySpecies : DatedRecordsOf(x) = {})
            /\ ~result.isNone =>
                  \A x \in SurveySpecies :
                      x \in DOMAIN result.prefs <=> Cardinality(DatedRecordsOf(x)) >= 5
            /\ \A x \in DOMAIN result.prefs :
                  /\ result.prefs[x].total_records = Cardinality(DatedRecordsOf(x))
                  /\ result.prefs[x].total_records =
                        result.prefs[x].season_counts["Summer"]
                        + result.prefs[x].season_counts["Autumn"]
                        + result.prefs[x].season_counts["Winter"]
                        + result.prefs[x].season_counts["Spring"]
                  /\ \A se \in {"Summer", "Autumn", "Winter", "Spring"} :
                        /\ result.prefs[x].season_counts[se] =
                              Cardinality(RecordsInSeason(x, se))
                        /\ Cardinality(RecordsInSeason(x, se)) <=
                              Cardinality(RecordsInSeason(x, result.prefs[x].peak_season))

\* species A has dated records in two seasons, more in summer than in
\* autumn, and undated records too; species B has dated records but fewer
\* than five
C14_Witness ==
    /\ Ran("analysis", "analyze_calling_seasons")
    /\ "A" \in DOMAIN analysis.seasonal_preferences.prefs
    /\ analysis.seasonal_preferences.prefs["A"].peak_season = "Summer"
    /\ RecordsInSeason("A", "Autumn") # {}
    /\ "B" \notin DOMAIN analysis.seasonal_preferences.prefs

DrawnAs(kind) ==
    {analysis.range_map[kind][i].species : i \in 1..Len(analysis.range_map[kind])}

\* C15: on the range comparison map every species with 'RARE SPECIES'
\* markers has at most 5 records and fewer than 5 species have fewer records
\* than it, fewer than 5 species have a larger range_area than any species
\* with 'WIDE RANGE SPECIES' markers, at most 5 species are drawn in each
\* category, and every marker is at a record of its species.
C15_RangeMapSpecies ==
    Ran("build_map", "frog_range_comparison_map.html") =>
        /\ \A x \in DrawnAs("rare") :
              /\ Cardinality(RecordsOf(x)) <= 5
              /\ Cardinality({y \in SurveySpecies :
                     RecordsOf(y) # {}
                     /\ Cardinality(RecordsOf(y)) < Cardinality(RecordsOf(x))}) < 5
        /\ \A x \in DrawnAs("wide") :
              Cardinality({y \in DOMAIN analysis.range_analysis :
                  analysis.range_analysis[y].range_area >
                      analysis.range_analysis[x].range_area}) < 5
        /\ Cardinality(DrawnAs("rare")) <= 5
        /\ Cardinality(DrawnAs("wide")) <= 5
        /\ \A kind \in {"rare", "wide"} : \A i \in 1..Len(analysis.range_map[kind]) :
              \E k \in RecordsOf(analysis.range_map[kind][i].species) :
                  analysis.range_map[kind][i].location =
                      <<merged_data.rows[k].decimalLatitude,
                        merged_data.rows[k].decimalLongitude>>

\* more than five species, all of them with at most five records: five are
\* drawn in each category and one species with two records is drawn in neither
C15_Witness ==
    /\ Ran("build_map", "frog_range_comparison_map.html")
    /\ Cardinality(DOMAIN analysis.range_analysis) > 5
    /\ Cardinality(DrawnAs("rare")) = 5
    /\ Cardinality(DrawnAs("wide")) = 5
    /\ \E x \in DOMAIN analysis.range_analysis :
          /\ Cardinality(RecordsOf(x)) = 2
          /\ x \notin DrawnAs("rare") \cup DrawnAs("wide")

SummaryFiles ==
    {"frog_endemism_map.html", "frog_seasonal_map.html", "frog_range_comparison_map.html"}

\* C16: whenever frog_species_map.main has printed its final summary, which
\* names three files to open, each of the three files has been written
\* earlier in the same run.
C16_SummaryFilesWritten ==
    (script = "frog_species_map" /\ Ran("stdout", "RESEARCH SUMMARY")) =>
        SummaryFiles \subseteq files

(***************************************************************************)
(* historic_station.py: the module-level tables.                           *)
(***************************************************************************)
\* latitudes are kept in tenths of a degree (51.5 is 515)
classify_region(lat) ==
    IF lat # NaN /\ lat >= 570 THEN "Scotland (North)"
    ELSE IF lat # NaN /\ lat >= 550 THEN "Scotland (South)"
    ELSE IF lat # NaN /\ lat >= 530 THEN "Northern England"
    ELSE IF lat # NaN /\ lat >= 515 THEN "Midlands"
    ELSE IF lat # NaN /\ lat >= 500 THEN "Southern England"
    ELSE "Southwest England"

METRICS ==
    [tmax |-> [name |-> "Max Temperature", unit |-> "C", color |-> "RdYlBu_r"],
     tmin |-> [name |-> "Min Temperature", unit |-> "C", color |-> "RdYlBu_r"],
     rain |-> [name |-> "Total Rainfall", unit |-> "mm", color |-> "Blues"],
     sun |-> [name |-> "Total Sunshine", unit |-> "hours", color |-> "YlOrRd"],
     af |-> [name |-> "Air Frost Days", unit |-> "days", color |-> "Purples"]]

MetricKeys == DOMAIN METRICS

\* a table: its columns and its rows
Table(cols, rows) == [cols |-> cols, rows |-> rows]

MetaCols == {"station_name", "lat", "lng"}

\* X.merge(station_meta, on='station', how='left') followed by
\* X['region'] = X['lat'].apply(classify_region)
RECURSIVE merge_meta(_, _)
merge_meta(left, meta) ==
    IF left = <<>> THEN <<>>
    ELSE LET l == Head(left)
             ms == SelectSeq(meta, LAMBDA m : m.station = l.station)
             join(m) == [station_name |-> m.station_name, lat |-> m.lat, lng |-> m.lng,
                         region |-> classify_region(m.lat)] @@ l
             out == IF ms = <<>>
                    THEN << join([station_name |-> NA, lat |-> NaN, lng |-> NaN]) >>
                    ELSE [i \in 1..Len(ms) |-> join(ms[i])]
         IN  out \o merge_meta(Tail(left), meta)

AnnualCols == {"station", "year", "tmax", "tmin", "rain", "sun", "af"}
MonthlyCols == AnnualCols \cup {"month"}

\* lines 29, 46 and 64-66: data and monthly_data
import_tables(annual_data, historic_weather, station_meta) ==
    [data |-> Table(AnnualCols \cup MetaCols \cup {"region"},
                    merge_meta(annual_data, station_meta)),
     monthly_data |-> Table(MonthlyCols \cup MetaCols \cup {"region"},
                            merge_meta(historic_weather, station_meta))]

\* sorted(data[col].unique()) as a set
column(tbl, col) == {tbl.rows[i][col] : i \in 1..Len(tbl.rows)}

years_of(tbls) == column(tbls.data, "year")
stations_of(tbls) == column(tbls.data, "station")

\* distribution_plot, line 788: data['decade'] = (data['metric'] // 10) * 10,
\* binning the selected metric instead of the year
with_decade_of_metric(tbl, metric) ==
    Table(tbl.cols \cup {"decade"},
          [i \in 1..Len(tbl.rows) |->
              [decade |-> (tbl.rows[i][metric] \div 10) * 10] @@ tbl.rows[i]])

\* distribution_plot, line 788: data['decade'] = (data['year'] // 10) * 10
with_decade(tbl, metric) ==
    Table(tbl.cols \cup {"decade"},
          [i \in 1..Len(tbl.rows) |->
              [decade |-> (tbl.rows[i].year \div 10) * 10] @@ tbl.rows[i]])

(***************************************************************************)
(* historic_station.py: controls and outputs of app_ui (lines 72-324).     *)
(***************************************************************************)
WeatherControlTab ==
    [map_year |-> 1, map_metric |-> 1,
     regional_metric |-> 2, regional_year_range |-> 2,
     historic_metric |-> 3, top_n_years |-> 3,
     monthly_metric |-> 4, monthly_stations |-> 4, compare_years |-> 4,
     ts_metric |-> 5, ts_stations |-> 5, select_random |-> 5, clear_selection |-> 5,
     trend_metric |-> 6, trend_aggregation |-> 6, show_trend_line |-> 6]

WeatherOutputTab ==
    [weather_map |-> 1, map_stats |-> 1,
     regional_trends |-> 2, regional_rankings |-> 2, regional_stats_table |-> 2,
     extreme_years_plot |-> 3, extreme_years_regional |-> 3, extreme_years_summary |-> 3,
     monthly_pattern_plot |-> 4, monthly_change_heatmap |-> 4,
     timeseries_plot |-> 5,
     trend_plot |-> 6, distribution_plot |-> 6]

\* the outputs in the order server() defines them
WeatherOutputs ==
    << "weather_map", "map_stats",
       "regional_trends", "regional_rankings", "regional_stats_table",
       "extreme_years_plot", "extreme_years_regional", "extreme_years_summary",
       "monthly_pattern_plot", "monthly_change_heatmap",
       "timeseries_plot", "trend_plot", "distribution_plot" >>

\* the station ids the tables may hold, in sorted order
StationOrder ==
    << "s1", "s2", "s3", "s4", "s5", "s6", "s7", "s8", "s9", "t1", "t2", "t3" >>

sorted_stations(tbls) == SelectSeq(StationOrder, LAMBDA st : st \in stations_of(tbls))

\* np.random.choice(stations, size=min(5, len(stations)), replace=False)
RandomSize == 5

\* np.random.choice(..., replace=True): n stations, repeats allowed
Selections_with_replacement(tbls, n) == [1..n -> stations_of(tbls)]

\* the sequences of distinct stations of length n
Selections(tbls, n) ==
    {q \in UNION {[1..k -> stations_of(tbls)] : k \in {n}} :
        \A i, j \in 1..n : i # j => q[i] # q[j]}

AllSelections(tbls) ==
    UNION {Selections(tbls, n) : n \in 0..Cardinality(stations_of(tbls))}

YearRanges(tbls) ==
    {r \in (Min(years_of(tbls))..Max(years_of(tbls))) \X
            (Min(years_of(tbls))..Max(years_of(tbls))) : r[1] <= r[2]}

\* the values the browser can send for a control
WeatherDomain(c, tbls) ==
    CASE c = "map_year" -> Min(years_of(tbls))..Max(years_of(tbls))
      [] c \in {"map_metric", "regional_metric", "historic_metric",
                "monthly_metric", "ts_metric", "trend_metric"} -> MetricKeys
      [] c \in {"regional_year_range", "compare_years"} -> YearRanges(tbls)
      [] c = "top_n_years" -> {3, 5, 10}
      [] c \in {"monthly_stations", "ts_stations"} -> AllSelections(tbls)
      [] c = "trend_aggregation" -> {"mean", "median"}
      [] c = "show_trend_line" -> BOOLEAN
      [] OTHER -> {}

\* the values of the controls when a session starts
WeatherInputs(tbls) ==
    [map_year |-> Max(years_of(tbls)), map_metric |-> "tmax",
     regional_metric |-> "rain",
     regional_year_range |-> <<Min(years_of(tbls)), Max(years_of(tbls))>>,
     historic_metric |-> "rain", top_n_years |-> 5,
     monthly_metric |-> "tmax",
     monthly_stations |-> SubSeq(sorted_stations(tbls), 1, 1),
     compare_years |-> <<Min(years_of(tbls)), Max(years_of(tbls))>>,
     ts_metric |-> "tmax",
     ts_stations |-> SubSeq(sorted_stations(tbls), 1,
                            Min({5, Len(sorted_stations(tbls))})),
     select_random |-> 0, clear_selection |-> 0,
     trend_metric |-> "tmax", trend_aggregation |-> "mean",
     show_trend_line |-> TRUE]

(***************************************************************************)
(* pandas aggregations.  A mean is kept as the exact fraction num/den of   *)
(* the values that are not NaN; den = 0 is the NaN of an empty group.      *)
(***************************************************************************)
RECURSIVE sum_seq(_)
sum_seq(q) == IF q = <<>> THEN 0 ELSE Head(q) + sum_seq(Tail(q))

\* rows[col].dropna() as a sequence of values
values_of(rows, col) ==
    SelectSeq([i \in 1..Len(rows) |-> rows[i][col]], LAMBDA v : v # NaN)

Frac(n, d) == [num |-> n, den |-> d]
IsNaN(f) == f.den = 0
FracLess(f, g) == ~IsNaN(f) /\ ~IsNaN(g) /\ f.num * g.den < g.num * f.den

\* Series.sum(): NaN skipped, 0 for an empty group
sum_total(rows, col) == Frac(sum_seq(values_of(rows, col)), 1)

\* Series.mean(): NaN skipped
mean_of(rows, col) ==
    Frac(sum_seq(values_of(rows, col)), Len(values_of(rows, col)))

RECURSIVE sort_values(_)
sort_values(q) ==
    IF q = <<>> THEN <<>>
    ELSE LET i == CHOOSE i \in 1..Len(q) : \A j \in 1..Len(q) : q[i] <= q[j]
         IN  <<q[i]>> \o sort_values([k \in 1..(Len(q) - 1) |->
                                         IF k < i THEN q[k] ELSE q[k + 1]])

\* Series.median(): NaN skipped
median_of(rows, col) ==
    LET v == sort_values(values_of(rows, col))
        n == Len(v)
    IN  IF n = 0 THEN Frac(0, 0)
        ELSE IF n % 2 = 1 THEN Frac(v[(n + 1) \div 2], 1)
        ELSE Frac(v[n \div 2] + v[(n \div 2) + 1], 2)

key_of(r, keys) == [i \in 1..Len(keys) |-> r[keys[i]]]

\* rows.groupby(keys): the groups, rows with a missing key left out
NumericCols == {"year", "month", "tmax", "tmin", "rain", "sun", "af", "lat", "lng",
                "decade", "prize_year"}

missing(r, col) == IF col \in NumericCols THEN r[col] = NaN ELSE r[col] = NA

groups(rows, keys) ==
    {key_of(rows[i], keys) : i \in {j \in 1..Len(rows) :
        \A k \in 1..Len(keys) : ~missing(rows[j], keys[k])}}

group_rows(rows, keys, k) == SelectSeq(rows, LAMBDA r : key_of(r, keys) = k)

\* rows.groupby(keys)[col].sum().reset_index()
groupby_sum(rows, keys, col) ==
    {[key |-> k, value |-> sum_total(group_rows(rows, keys, k), col)] :
        k \in groups(rows, keys)}

\* rows.groupby(keys)[col].mean().reset_index()
groupby_mean(rows, keys, col) ==
    {[key |-> k, value |-> mean_of(group_rows(rows, keys, k), col)] :
        k \in groups(rows, keys)}

groupby_median(rows, keys, col) ==
    {[key |-> k, value |-> median_of(group_rows(rows, keys, k), col)] :
        k \in groups(rows, keys)}

\* counts.sort_values(ascending).head(n) on the prize counts: the groups
\* with fewer than n groups ranked before them (NaN sorts last either way)
head_sorted(G, n, ascending) ==
    LET before(g, h) == \/ ~IsNaN(g.value) /\ IsNaN(h.value)
                        \/ IF ascending THEN FracLess(g.value, h.value)
                                        ELSE FracLess(h.value, g.value)
    IN  {g \in G : Cardinality({h \in G : before(h, g)}) < n}

\* yearly.sort_values(ascending=...).head(n) on the yearly means: exactly
\* min(n, number of years) years.  NaN sorts last either way; equal means
\* keep the order of the index, the years ascending, in both directions
\* (nargsort reverses the values before and the positions after a
\* descending sort, and the sort of a short array is an insertion sort).
sorted_head(G, n, ascending) ==
    LET same(g, h) == /\ IsNaN(g.value) = IsNaN(h.value)
                      /\ ~FracLess(g.value, h.value) /\ ~FracLess(h.value, g.value)
        before(g, h) == \/ ~IsNaN(g.value) /\ IsNaN(h.value)
                        \/ IF ascending THEN FracLess(g.value, h.value)
                                        ELSE FracLess(h.value, g.value)
                        \/ same(g, h) /\ g.key[1] < h.key[1]
    IN  {g \in G : Cardinality({h \in G : before(h, g)}) < n}

P(text) == [kind |-> "p", text |-> text]
Figure(title, traces) == [kind |-> "figure", title |-> title, traces |-> traces]
Rendered(reads, out, tbls) == [reads |-> reads, out |-> out, tables |-> tbls]

(***************************************************************************)
(* historic_station.py: the output functions of server().  Each returns    *)
(* the controls it read, what it rendered, and the module-level tables as  *)
(* it leaves them.                                                         *)
(***************************************************************************)
year_data(tbls, year, metric) ==
    SelectSeq(tbls.data.rows, LAMBDA r : r.year = year /\ r[metric] # NaN)

weather_map(inp, tbls) ==
    LET year == inp.map_year
        metric == inp.map_metric
        yd == year_data(tbls, year, metric)
    IN  Rendered({"map_year", "map_metric"},
                 IF Len(yd) = 0
                 THEN P("No data available for this year and metric")
                 ELSE Figure(<<METRICS[metric].name, year>>,
                             {[station |-> yd[i].station, value |-> yd[i][metric]] :
                                 i \in 1..Len(yd)}),
                 tbls)

map_stats(inp, tbls) ==
    LET year == inp.map_year
        metric == inp.map_metric
        yd == year_data(tbls, year, metric)
        vals == values_of(yd, metric)
        first(v) == yd[CHOOSE i \in 1..Len(yd) :
                          /\ yd[i][metric] = v
                          /\ \A j \in 1..(i - 1) : yd[j][metric] # v].station_name
    IN  Rendered({"map_year", "map_metric"},
                 IF Len(yd) = 0
                 THEN P("No data available")
                 ELSE [kind |-> "taglist", year |-> year,
                       unit |-> METRICS[metric].unit,
                       avg_val |-> mean_of(yd, metric),
                       min_val |-> Min(Range(vals)), max_val |-> Max(Range(vals)),
                       min_station |-> first(Min(Range(vals))),
                       max_station |-> first(Max(Range(vals)))],
                 tbls)

\* data[(data['year'] >= year_range[0]) & (data['year'] <= year_range[1])]
in_year_range(tbls, year_range) ==
    SelectSeq(tbls.data.rows,
              LAMBDA r : r.year >= year_range[1] /\ r.year <= year_range[2])

\* regional_trends with .sum() in place of .mean()
regional_trends_sum(inp, tbls) ==
    LET metric == inp.regional_metric
        filtered == in_year_range(tbls, inp.regional_year_range)
    IN  Rendered({"regional_metric", "regional_year_range"},
                 Figure(<<METRICS[metric].name, "by Region Over Time">>,
                        groupby_sum(filtered, <<"region", "year">>, metric)),
                 tbls)

regional_trends(inp, tbls) ==
    LET metric == inp.regional_metric
        filtered == in_year_range(tbls, inp.regional_year_range)
    IN  Rendered({"regional_metric", "regional_year_range"},
                 Figure(<<METRICS[metric].name, "by Region Over Time">>,
                        groupby_mean(filtered, <<"region", "year">>, metric)),
                 tbls)

regional_rankings(inp, tbls) ==
    LET metric == inp.regional_metric
        filtered == in_year_range(tbls, inp.regional_year_range)
    IN  Rendered({"regional_metric", "regional_year_range"},
                 Figure(<<METRICS[metric].name, METRICS[metric].unit>>,
                        groupby_mean(filtered, <<"region">>, metric)),
                 tbls)

\* the Average, Min and Max columns of the table (Std Dev is not modelled)
regional_stats_table(inp, tbls) ==
    LET metric == inp.regional_metric
        filtered == in_year_range(tbls, inp.regional_year_range)
        stat(k) == LET g == group_rows(filtered, <<"region">>, k)
                       v == Range(values_of(g, metric))
                   IN  [key |-> k, Average |-> mean_of(g, metric),
                        Min |-> IF v = {} THEN NaN ELSE Min(v),
                        Max |-> IF v = {} THEN NaN ELSE Max(v)]
    IN  Rendered({"regional_metric", "regional_year_range"},
                 [kind |-> "html",
                  rows |-> {stat(k) : k \in groups(filtered, <<"region">>)}],
                 tbls)

yearly_avg(tbls, metric) == groupby_mean(tbls.data.rows, <<"year">>, metric)

extreme_years_plot(inp, tbls) ==
    LET metric == inp.historic_metric
        top_n == inp.top_n_years
    IN  Rendered({"historic_metric", "top_n_years"},
                 Figure(<<"Extreme Years for", METRICS[metric].name>>,
                        [all_years |-> yearly_avg(tbls, metric),
                         top_years |-> sorted_head(yearly_avg(tbls, metric), top_n, FALSE),
                         low_years |-> sorted_head(yearly_avg(tbls, metric), top_n, TRUE)]),
                 tbls)

\* an extreme_years_regional that breaks down the lowest years
extreme_years_regional_lowest(inp, tbls) ==
    LET metric == inp.historic_metric
        top_n == inp.top_n_years
        extreme_years == {g.key[1] : g \in sorted_head(yearly_avg(tbls, metric), top_n, TRUE)}
        regional_data == SelectSeq(tbls.data.rows, LAMBDA r : r.year \in extreme_years)
    IN  Rendered({"historic_metric", "top_n_years"},
                 Figure("Regional Breakdown of Extreme Years",
                        groupby_mean(regional_data, <<"year", "region">>, metric)),
                 tbls)

extreme_years_regional(inp, tbls) ==
    LET metric == inp.historic_metric
        top_n == inp.top_n_years
        extreme_years == {g.key[1] : g \in sorted_head(yearly_avg(tbls, metric), top_n, FALSE)}
        regional_data == SelectSeq(tbls.data.rows, LAMBDA r : r.year \in extreme_years)
    IN  Rendered({"historic_metric", "top_n_years"},
                 Figure("Regional Breakdown of Extreme Years",
                        groupby_mean(regional_data, <<"year", "region">>, metric)),
                 tbls)

extreme_years_summary(inp, tbls) ==
    LET metric == inp.historic_metric
        top_n == inp.top_n_years
    IN  Rendered({"historic_metric", "top_n_years"},
                 [kind |-> "html", name |-> METRICS[metric].name,
                  top_years |-> sorted_head(yearly_avg(tbls, metric), top_n, FALSE),
                  low_years |-> sorted_head(yearly_avg(tbls, metric), top_n, TRUE)],
                 tbls)

\* a monthly_pattern_plot that takes the slider as a range of years
monthly_pattern_plot_between(inp, tbls) ==
    LET metric == inp.monthly_metric
        selected_stations == inp.monthly_stations
        years_to_compare == inp.compare_years
        filtered == SelectSeq(tbls.monthly_data.rows,
                              LAMBDA r : /\ r.station \in Range(selected_stations)
                                         /\ r.year >= years_to_compare[1]
                                         /\ r.year <= years_to_compare[2])
    IN  Rendered({"monthly_metric", "monthly_stations", "compare_years"},
                 IF selected_stations = <<>>
                 THEN P("Please select at least one station")
                 ELSE IF Len(filtered) = 0
                 THEN P("No data available for selected filters")
                 ELSE Figure(<<"Monthly", METRICS[metric].name, "Pattern Comparison">>,
                             groupby_mean(filtered, <<"month", "year">>, metric)),
                 tbls)

monthly_pattern_plot(inp, tbls) ==
    LET metric == inp.monthly_metric
        selected_stations == inp.monthly_stations
        years_to_compare == inp.compare_years
        filtered == SelectSeq(tbls.monthly_data.rows,
                              LAMBDA r : /\ r.station \in Range(selected_stations)
                                         /\ r.year \in Range(years_to_compare))
    IN  Rendered({"monthly_metric", "monthly_stations", "compare_years"},
                 IF selected_stations = <<>>
                 THEN P("Please select at least one station")
                 ELSE IF Len(filtered) = 0
                 THEN P("No data available for selected filters")
                 ELSE Figure(<<"Monthly", METRICS[metric].name, "Pattern Comparison">>,
                             groupby_mean(filtered, <<"month", "year">>, metric)),
                 tbls)

\* pivot.diff(axis=1): each cell with the cell of the preceding year column
monthly_change_heatmap(inp, tbls) ==
    LET metric == inp.monthly_metric
        selected_stations == inp.monthly_stations
        filtered == SelectSeq(tbls.monthly_data.rows,
                              LAMBDA r : r.station \in Range(selected_stations))
        monthly_yearly == groupby_mean(filtered, <<"year", "month">>, metric)
        cols == {g.key[1] : g \in monthly_yearly}
        cell(y, m) == IF \E g \in monthly_yearly : g.key = <<y, m>>
                      THEN (CHOOSE g \in monthly_yearly : g.key = <<y, m>>).value
                      ELSE Frac(0, 0)
        previous(y) == {z \in cols : z < y}
        change(y, m) ==
            IF previous(y) = {} THEN Frac(0, 0)
            ELSE LET c == cell(y, m)
                     q == cell(Max(previous(y)), m)
                 IN  Frac(c.num * q.den - q.num * c.den, c.den * q.den)
    IN  Rendered({"monthly_metric", "monthly_stations"},
                 IF selected_stations = <<>>
                 THEN P("Please select at least one station")
                 ELSE Figure(<<"Year-on-Year Change in", METRICS[metric].name, "by Month">>,
                             {[year |-> y, month |-> m, change |-> change(y, m)] :
                                 y \in cols, m \in {g.key[2] : g \in monthly_yearly}}),
                 tbls)

\* dict(zip(data['station'], data['station_name'])).get(station_id, station_id)
station_names(tbls, station_id) ==
    LET at == {i \in 1..Len(tbls.data.rows) : tbls.data.rows[i].station = station_id}
    IN  IF at = {} THEN station_id ELSE tbls.data.rows[Max(at)].station_name

\* a timeseries_plot without the upper limit on the selection
timeseries_plot_unlimited(inp, tbls) ==
    LET selected_stations == inp.ts_stations
        metric == inp.ts_metric
        station_data(st) == SelectSeq(tbls.data.rows, LAMBDA r : r.station = st)
        with_data == SelectSeq(selected_stations, LAMBDA st : Len(station_data(st)) > 0)
    IN  Rendered({"ts_stations", "ts_metric"},
                 IF Len(selected_stations) = 0
                 THEN P("Please select at least one station")
                 ELSE Figure(<<METRICS[metric].name, "Over Time">>,
                             [i \in 1..Len(with_data) |->
                                 [name |-> station_names(tbls, with_data[i]),
                                  points |-> {<<r.year, r[metric]>> :
                                                 r \in Range(station_data(with_data[i]))}]]),
                 tbls)

timeseries_plot(inp, tbls) ==
    LET selected_stations == inp.ts_stations
        metric == inp.ts_metric
        station_data(st) == SelectSeq(tbls.data.rows, LAMBDA r : r.station = st)
        with_data == SelectSeq(selected_stations, LAMBDA st : Len(station_data(st)) > 0)
    IN  Rendered({"ts_stations", "ts_metric"},
                 IF Len(selected_stations) = 0
                 THEN P("Please select at least one station")
                 ELSE IF Len(selected_stations) > 10
                 THEN P("Please select no more than 10 stations")
                 ELSE Figure(<<METRICS[metric].name, "Over Time">>,
                             [i \in 1..Len(with_data) |->
                                 [name |-> station_names(tbls, with_data[i]),
                                  points |-> {<<r.year, r[metric]>> :
                                                 r \in Range(station_data(with_data[i]))}]]),
                 tbls)

\* the fitted coefficients of the trend line are not modelled, only its presence
trend_plot(inp, tbls) ==
    LET metric == inp.trend_metric
        aggregation == inp.trend_aggregation
        show_trend == inp.show_trend_line
        yearly_agg == IF aggregation = "mean"
                      THEN groupby_mean(tbls.data.rows, <<"year">>, metric)
                      ELSE groupby_median(tbls.data.rows, <<"year">>, metric)
    IN  Rendered({"trend_metric", "trend_aggregation", "show_trend_line"},
                 Figure(<<aggregation, METRICS[metric].name, "Trend">>,
                        [yearly_agg |-> yearly_agg, trend_line |-> show_trend]),
                 tbls)

boxes(tbl, metric) ==
    {[decade |-> d,
      values |-> values_of(SelectSeq(tbl.rows, LAMBDA r : r.decade = d), metric)] :
        d \in column(tbl, "decade")}

\* distribution_plot that also reads the trend_aggregation control
distribution_plot_reading_aggregation(inp, tbls) ==
    LET metric == inp.trend_metric
        binned == with_decade(tbls.data, metric)
    IN  Rendered({"trend_metric", "trend_aggregation"},
                 Figure(<<METRICS[metric].name, "Distribution by Decade">>,
                        boxes(binned, metric)),
                 [tbls EXCEPT !.data = binned])

distribution_plot(inp, tbls) ==
    LET metric == inp.trend_metric
        binned == with_decade(tbls.data, metric)
    IN  Rendered({"trend_metric"},
                 Figure(<<METRICS[metric].name, "Distribution by Decade">>,
                        boxes(binned, metric)),
                 [tbls EXCEPT !.data = binned])

(***************************************************************************)
(* selected_british_literary_prizes.py                                     *)
(***************************************************************************)
\* .str.lower().str.strip() on the spellings that occur in the tables below
lower_strip(g) ==
    CASE g = "Man " -> "man"
      [] g = "F" -> "f"
      [] g = "Winner" -> "winner"
      [] OTHER -> g

\* lines 11-19
gender_clean(g) ==
    LET c == lower_strip(g)
    IN  CASE c \in {"female", "woman", "f"} -> "Women"
          [] c \in {"male", "man", "m"} -> "Men"
          [] OTHER -> c

PrizeCols == {"prize_genre", "gender", "ethnicity_macro", "uk_residence", "prize_year",
              "highest_degree", "person_role", "degree_institution",
              "degree_field_category"}

\* lines 8-19: the table read from the CSV with its gender_clean column
import_prizes(csv) ==
    [prizes |-> Table(PrizeCols \cup {"gender_clean"},
                      [i \in 1..Len(csv) |->
                          [gender_clean |-> gender_clean(csv[i].gender)] @@ csv[i]])]

PrizesControlTab == [filter_gender |-> 3, filter_ethnicity |-> 3, filter_residence |-> 3]

PrizesOutputTab ==
    [genre_gender_plot |-> 1, genre_ethnicity_plot |-> 1,
     temporal_gender_plot |-> 2, temporal_ethnicity_plot |-> 2,
     education_degree_plot |-> 3, education_institution_plot |-> 3,
     education_field_plot |-> 3]

PrizesOutputs ==
    << "genre_gender_plot", "genre_ethnicity_plot",
       "temporal_gender_plot", "temporal_ethnicity_plot",
       "education_degree_plot", "education_institution_plot", "education_field_plot" >>

PrizesDomain(c, tbls) ==
    CASE c = "filter_gender" -> {"All", "Women", "Men"}
      [] c = "filter_ethnicity" -> {"All"} \cup (column(tbls.prizes, "ethnicity_macro") \ {NA})
      [] c = "filter_residence" -> {"All", "Yes", "No"}
      [] OTHER -> {}

\* an input_select starts at its first choice
PrizesInputs ==
    [filter_gender |-> "All", filter_ethnicity |-> "All", filter_residence |-> "All"]

\* rows.groupby(keys).size().reset_index(name='count')
groupby_size(rows, keys) ==
    {[key |-> k, count |-> Len(group_rows(rows, keys, k))] : k \in groups(rows, keys)}

\* genre_gender_plot computed from the filtered table
genre_gender_plot_filtered(inp, tbls, cont) ==
    Rendered({"filtered_data"},
             Figure("Gender Representation by Genre",
                    {g \in groupby_size(cont.filtered_data.rows,
                                        <<"prize_genre", "gender_clean">>) :
                        g.key[2] \in {"Women", "Men"}}),
             tbls)

genre_gender_plot(inp, tbls, cont) ==
    Rendered({},
             Figure("Gender Representation by Genre",
                    {g \in groupby_size(tbls.prizes.rows, <<"prize_genre", "gender_clean">>) :
                        g.key[2] \in {"Women", "Men"}}),
             tbls)

genre_ethnicity_plot(inp, tbls, cont) ==
    Rendered({},
             Figure("Ethnic Representation by Genre",
                    groupby_size(tbls.prizes.rows, <<"prize_genre", "ethnicity_macro">>)),
             tbls)

temporal_gender_plot(inp, tbls, cont) ==
    Rendered({},
             Figure("Gender Representation Over Time",
                    {g \in groupby_size(tbls.prizes.rows, <<"prize_year", "gender_clean">>) :
                        g.key[2] \in {"Women", "Men"}}),
             tbls)

temporal_ethnicity_plot(inp, tbls, cont) ==
    Rendered({},
             Figure("Ethnic Representation Over Time",
                    groupby_size(tbls.prizes.rows, <<"prize_year", "ethnicity_macro">>)),
             tbls)

\* the reactive.Calc: a filtered copy of prizes
filtered_data(inp, tbls, cont) ==
    LET df0 == tbls.prizes.rows
        df1 == IF inp.filter_gender # "All"
               THEN SelectSeq(df0, LAMBDA r : r.gender_clean = inp.filter_gender)
               ELSE df0
        df2 == IF inp.filter_ethnicity # "All"
               THEN SelectSeq(df1, LAMBDA r : r.ethnicity_macro = inp.filter_ethnicity)
               ELSE df1
        residence_val == IF inp.filter_residence = "Yes" THEN "Yes" ELSE "No"
        df3 == IF inp.filter_residence # "All"
               THEN SelectSeq(df2, LAMBDA r : r.uk_residence = residence_val)
               ELSE df2
    IN  Rendered({"filter_gender", "filter_ethnicity", "filter_residence"},
                 Table(tbls.prizes.cols, df3), tbls)

education_degree_plot(inp, tbls, cont) ==
    LET df == cont.filtered_data.rows
        degree_counts ==
            {[key |-> k,
              value |-> Frac(Len(group_rows(df, <<"highest_degree">>, k)), 1),
              winners |-> Count(group_rows(df, <<"highest_degree">>, k),
                                LAMBDA r : lower_strip(r.person_role) = "winner")] :
                k \in groups(df, <<"highest_degree">>)}
    IN  Rendered({"filtered_data"},
                 Figure("Highest Degree Attained", head_sorted(degree_counts, 10, FALSE)),
                 tbls)

\* df[col].value_counts().head(n)
value_counts_head(df, col, n) ==
    head_sorted({[key |-> k, value |-> Frac(Len(group_rows(df, <<col>>, k)), 1)] :
                    k \in groups(df, <<col>>)}, n, FALSE)

education_institution_plot(inp, tbls, cont) ==
    Rendered({"filtered_data"},
             Figure("Top Educational Institutions",
                    value_counts_head(cont.filtered_data.rows, "degree_institution", 15)),
             tbls)

education_field_plot(inp, tbls, cont) ==
    Rendered({"filtered_data"},
             Figure("Degree Field Categories",
                    value_counts_head(cont.filtered_data.rows, "degree_field_category", 12)),
             tbls)

(***************************************************************************)
(* The reactive runtime both dashboards run under (shiny): a node is an    *)
(* output or a reactive.Calc; executing a node records what it read; a     *)
(* changed input invalidates the nodes that read it and, through a Calc,   *)
(* the nodes that read the Calc; a flush re-executes the invalidated       *)
(* outputs of the visible nav panel, a Calc when an output calls it.       *)
(***************************************************************************)
ControlTab(a) == IF a = "weather" THEN WeatherControlTab ELSE PrizesControlTab
OutputTab(a) == IF a = "weather" THEN WeatherOutputTab ELSE PrizesOutputTab
Outputs(a) == IF a = "weather" THEN WeatherOutputs ELSE PrizesOutputs
Calcs(a) == IF a = "weather" THEN {} ELSE {"filtered_data"}
Nodes(a) == Range(Outputs(a)) \cup Calcs(a)
Tabs(a) == {OutputTab(a)[o] : o \in DOMAIN OutputTab(a)}
Domain(a, c, tbls) == IF a = "weather" THEN WeatherDomain(c, tbls) ELSE PrizesDomain(c, tbls)

\* the functions server() registers, by name
server(n, inp, tbls, cont) ==
    CASE n = "weather_map" -> weather_map(inp, tbls)
      [] n = "map_stats" -> map_stats(inp, tbls)
      [] n = "regional_trends" -> regional_trends(inp, tbls)
      [] n = "regional_rankings" -> regional_rankings(inp, tbls)
      [] n = "regional_stats_table" -> regional_stats_table(inp, tbls)
      [] n = "extreme_years_plot" -> extreme_years_plot(inp, tbls)
      [] n = "extreme_years_regional" -> extreme_years_regional(inp, tbls)
      [] n = "extreme_years_summary" -> extreme_years_summary(inp, tbls)
      [] n = "monthly_pattern_plot" -> monthly_pattern_plot(inp, tbls)
      [] n = "monthly_change_heatmap" -> monthly_change_heatmap(inp, tbls)
      [] n = "timeseries_plot" -> timeseries_plot(inp, tbls)
      [] n = "trend_plot" -> trend_plot(inp, tbls)
      [] n = "distribution_plot" -> distribution_plot(inp, tbls)
      [] n = "genre_gender_plot" -> genre_gender_plot(inp, tbls, cont)
      [] n = "genre_ethnicity_plot" -> genre_ethnicity_plot(inp, tbls, cont)
      [] n = "temporal_gender_plot" -> temporal_gender_plot(inp, tbls, cont)
      [] n = "temporal_ethnicity_plot" -> temporal_ethnicity_plot(inp, tbls, cont)
      [] n = "filtered_data" -> filtered_data(inp, tbls, cont)
      [] n = "education_degree_plot" -> education_degree_plot(inp, tbls, cont)
      [] n = "education_institution_plot" -> education_institution_plot(inp, tbls, cont)
      [] n = "education_field_plot" -> education_field_plot(inp, tbls, cont)

NotRendered == [kind |-> "none", rows |-> <<>>]

\* the runtime before anything has executed
Fresh(a, tbls) ==
    [deps |-> [n \in Nodes(a) |-> {}], stale |-> Nodes(a),
     content |-> [n \in Nodes(a) |-> NotRendered], tables |-> tbls, ran |-> {}]

\* node n has executed and returned r
executed(n, rt, r) ==
    [deps |-> [rt.deps EXCEPT ![n] = r.reads],
     stale |-> rt.stale \ {n},
     content |-> [rt.content EXCEPT ![n] = r.out],
     tables |-> r.tables,
     ran |-> rt.ran \cup {n}]

execute(n, inp, rt) == executed(n, rt, server(n, inp, rt.tables, rt.content))

RECURSIVE execute_all(_, _, _)
execute_all(S, inp, rt) ==
    IF S = {} THEN rt
    ELSE LET n == CHOOSE n \in S : TRUE
         IN  execute_all(S \ {n}, inp, execute(n, inp, rt))

\* an output executes; a stale Calc it calls executes first
render(o, inp, rt) ==
    execute(o, inp,
            execute_all(server(o, inp, rt.tables, rt.content).reads \cap rt.stale, inp, rt))

RECURSIVE render_seq(_, _, _)
render_seq(q, inp, rt) ==
    IF q = <<>> THEN rt ELSE render_seq(Tail(q), inp, render(Head(q), inp, rt))

flush(a, inp, t, rt) ==
    render_seq(SelectSeq(Outputs(a), LAMBDA o : o \in rt.stale /\ OutputTab(a)[o] = t),
               inp, rt)

RECURSIVE dependents(_, _)
dependents(S, d) ==
    LET more == {n \in DOMAIN d : d[n] \cap S # {}} \ S
    IN  IF more = {} THEN S ELSE dependents(S \cup more, d)

\* the nodes a change of control c invalidates
invalidate(c, d) == dependents({n \in DOMAIN d : c \in d[n]}, d)

\* the (year, decade) pairs the table holds once distribution_plot has run
decades_written(rt) ==
    IF "distribution_plot" \in rt.ran
    THEN {<<rt.tables.data.rows[i].year, rt.tables.data.rows[i].decade>> :
             i \in 1..Len(rt.tables.data.rows)}
    ELSE {}

(***************************************************************************)
(* The dashboards as state machines.                                       *)
(***************************************************************************)
\* the browser reports value v for control c: invalidation, then a flush
\* the runtime as the state holds it, the nodes of inv invalidated
Runtime(inv) ==
    [deps |-> [n \in DOMAIN deps |-> IF n \in inv THEN {} ELSE deps[n]],
     stale |-> stale \cup inv, content |-> content, tables |-> tables, ran |-> {}]

\* the state takes over the runtime rt1 a flush has left
Flushed(rt1) ==
    /\ deps' = rt1.deps /\ stale' = rt1.stale
    /\ content' = rt1.content /\ tables' = rt1.tables
    /\ recomputed' = rt1.ran
    /\ decadeLog' = decadeLog \cup decades_written(rt1)

Changed(c, v) ==
    /\ input' = [input EXCEPT ![c] = v]
    /\ invalidated' = invalidate(c, deps)
    /\ lastChanged' = c
    /\ Flushed(flush(app, [input EXCEPT ![c] = v], tab, Runtime(invalidate(c, deps))))

\* the user sets a control of the visible nav panel to another value
SetInput ==
    /\ app \in {"weather", "prizes"} /\ steps < MaxSteps
    /\ \E c \in DOMAIN ControlTab(app) :
          /\ ControlTab(app)[c] = tab
          /\ \E v \in Domain(app, c, tables) : v # input[c] /\ Changed(c, v)
    /\ steps' = steps + 1
    /\ UNCHANGED <<frogVars, seasonVars, app, tab, started, pending>>

\* the user opens another nav panel: its invalidated outputs execute
SwitchTab ==
    /\ app \in {"weather", "prizes"} /\ steps < MaxSteps
    /\ \E t \in Tabs(app) \ {tab} :
          /\ tab' = t
          /\ Flushed(flush(app, input, t, Runtime({})))
    /\ invalidated' = {} /\ lastChanged' = "none"
    /\ steps' = steps + 1
    /\ UNCHANGED <<frogVars, seasonVars, app, input, started, pending>>

\* lines 684-688: the button counts a click, the effect asks the browser to
\* select min(5, len(stations)) stations drawn at random
ClickRandom ==
    /\ app = "weather" /\ steps < MaxSteps
    /\ ControlTab(app)["select_random"] = tab
    /\ Changed("select_random", input.select_random + 1)
    /\ \E random_stations \in
            Selections(tables, Min({RandomSize, Cardinality(stations_of(tables))})) :
          pending' = Append(pending, [effect |-> "select_random",
                                      selected |-> random_stations])
    /\ steps' = steps + 1
    /\ UNCHANGED <<frogVars, seasonVars, app, tab, started>>

\* a 'Clear All' whose effect keeps the first selected station
ClickClearButFirst ==
    /\ app = "weather" /\ steps < MaxSteps
    /\ ControlTab(app)["clear_selection"] = tab
    /\ Changed("clear_selection", input.clear_selection + 1)
    /\ pending' = Append(pending,
                         [effect |-> "clear_selection",
                          selected |-> SubSeq(input.ts_stations, 1,
                                              Min({1, Len(input.ts_stations)}))])
    /\ steps' = steps + 1
    /\ UNCHANGED <<frogVars, seasonVars, app, tab, started>>

\* lines 690-693
ClickClear ==
    /\ app = "weather" /\ steps < MaxSteps
    /\ ControlTab(app)["clear_selection"] = tab
    /\ Changed("clear_selection", input.clear_selection + 1)
    /\ pending' = Append(pending, [effect |-> "clear_selection", selected |-> <<>>])
    /\ steps' = steps + 1
    /\ UNCHANGED <<frogVars, seasonVars, app, tab, started>>

\* the browser applies an update_selectize message and reports ts_stations
\* if the selection is another one
DeliverUpdate ==
    /\ app = "weather" /\ pending # <<>>
    /\ pending' = Tail(pending)
    /\ IF Head(pending).selected # input.ts_stations
       THEN Changed("ts_stations", Head(pending).selected)
       ELSE /\ recomputed' = {} /\ invalidated' = {} /\ lastChanged' = "none"
            /\ UNCHANGED <<input, deps, stale, content, tables, decadeLog>>
    /\ UNCHANGED <<frogVars, seasonVars, app, tab, started, steps>>

\* a session starts: the outputs of the first nav panel execute
Started(a, inp, tbls, rt1) ==
    /\ app = a /\ input = inp /\ tab = 1
    /\ deps = rt1.deps /\ stale = rt1.stale
    /\ content = rt1.content /\ tables = rt1.tables /\ started = tbls
    /\ recomputed = rt1.ran /\ invalidated = {} /\ lastChanged = "none"
    /\ pending = <<>> /\ steps = 0 /\ decadeLog = decades_written(rt1)
    /\ FrogIdle /\ SeasonIdle

Start(a, inp, tbls) == Started(a, inp, tbls, flush(a, inp, 1, Fresh(a, tbls)))

\* station latitudes (tenths of a degree) the metadata may hold
LatSamples == {NaN, 499, 515, 570}

station_meta(lat1, lat2) ==
    << [station |-> "s1", station_name |-> "Station 1", lat |-> lat1, lng |-> -30],
       [station |-> "s2", station_name |-> "Station 2", lat |-> lat2, lng |-> -15] >>

\* one month of readings per station and year, so that the annual
\* aggregates of lines 20-26 are the readings themselves
annual_data ==
    << [station |-> "s1", year |-> 1999, tmax |-> 14, tmin |-> 6, rain |-> 800,
        sun |-> 1400, af |-> 30],
       [station |-> "s1", year |-> 2000, tmax |-> 15, tmin |-> 7, rain |-> 810,
        sun |-> 1500, af |-> 20],
       [station |-> "s2", year |-> 1999, tmax |-> 12, tmin |-> 5, rain |-> 600,
        sun |-> 1300, af |-> 40],
       [station |-> "s2", year |-> 2000, tmax |-> NaN, tmin |-> 4, rain |-> 600,
        sun |-> 0, af |-> 45] >>

historic_weather ==
    [i \in 1..Len(annual_data) |-> [month |-> 1] @@ annual_data[i]]

StartWeather(tbls) == Start("weather", WeatherInputs(tbls), tbls)

InitWeather ==
    \E lat1 \in LatSamples, lat2 \in LatSamples :
        StartWeather(import_tables(annual_data, historic_weather,
                                   station_meta(lat1, lat2)))

Next == SetInput \/ SwitchTab \/ ClickRandom \/ ClickClear \/ DeliverUpdate

Spec == InitWeather /\ [][Next]_vars

(***************************************************************************)
(* historic_station.py, lines 12-66, on monthly readings: SpecImport.      *)
(* `tables` holds the module-level tables defined so far.                  *)
(***************************************************************************)
MaxMonths == 2

\* the sum of a column of a group: NaN skipped, 0 for an empty group
sum_of(rows, col) == sum_seq(values_of(rows, col))

\* the group keys in the order groupby sorts them: station, then year
RECURSIVE sorted_keys(_)
sorted_keys(G) ==
    IF G = {} THEN <<>>
    ELSE LET rank(k) == 10000 * (CHOOSE i \in 1..Len(StationOrder) : StationOrder[i] = k[1])
                        + k[2]
             first == CHOOSE k \in G : \A g \in G : rank(k) <= rank(g)
         IN  << first >> \o sorted_keys(G \ {first})

\* lines 20-26: historic_weather.groupby(['station', 'year']).agg({'tmax':
\* 'mean', 'tmin': 'mean', 'rain': 'sum', 'sun': 'sum', 'af': 'sum'})
\* .reset_index()
aggregate_annual(monthly) ==
    LET ks == sorted_keys(groups(monthly, <<"station", "year">>))
    IN  [i \in 1..Len(ks) |->
            [station |-> ks[i][1], year |-> ks[i][2],
             tmax |-> mean_of(group_rows(monthly, <<"station", "year">>, ks[i]), "tmax"),
             tmin |-> mean_of(group_rows(monthly, <<"station", "year">>, ks[i]), "tmin"),
             rain |-> sum_of(group_rows(monthly, <<"station", "year">>, ks[i]), "rain"),
             sun |-> sum_of(group_rows(monthly, <<"station", "year">>, ks[i]), "sun"),
             af |-> sum_of(group_rows(monthly, <<"station", "year">>, ks[i]), "af")]]

\* lines 20-26
ImportAnnual ==
    /\ app = "import" /\ "annual_data" \notin DOMAIN tables
    /\ tables' = [annual_data |-> aggregate_annual(tables.historic_weather)] @@ tables
    /\ UNCHANGED <<frogVars, seasonVars, app, input, tab, deps, stale, recomputed,
                   invalidated, lastChanged, started, content, pending, steps, decadeLog>>

\* lines 29 and 46
ImportData ==
    /\ app = "import" /\ "annual_data" \in DOMAIN tables /\ "data" \notin DOMAIN tables
    /\ tables' = [data |-> Table(AnnualCols \cup MetaCols \cup {"region"},
                                 merge_meta(tables.annual_data, tables.station_meta))]
                 @@ tables
    /\ UNCHANGED <<frogVars, seasonVars, app, input, tab, deps, stale, recomputed,
                   invalidated, lastChanged, started, content, pending, steps, decadeLog>>

\* lines 64-66
ImportMonthly ==
    /\ app = "import" /\ "data" \in DOMAIN tables /\ "monthly_data" \notin DOMAIN tables
    /\ tables' = [monthly_data |->
                     Table(MonthlyCols \cup MetaCols \cup {"region"},
                           merge_meta(tables.historic_weather, tables.station_meta))]
                 @@ tables
    /\ UNCHANGED <<frogVars, seasonVars, app, input, tab, deps, stale, recomputed,
                   invalidated, lastChanged, started, content, pending, steps, decadeLog>>

\* one monthly row of historic_station_met.csv
MonthlyRows ==
    [station : {"s1", "s2"}, year : {NaN, 1999, 2000}, month : {1},
     tmax : {NaN, 10, 13}, tmin : {5}, rain : {NaN, 10}, sun : {NaN}, af : {1}]

\* up to MaxMonths rows of one shape, then up to MaxMonths of another
MonthlyTables ==
    {Rep(b1, n1) \o Rep(b2, n2) :
        b1 \in MonthlyRows, b2 \in MonthlyRows, n1 \in 0..MaxMonths, n2 \in 0..MaxMonths}

\* station_meta.csv: no row, one row per station, a station without a row,
\* or a station listed twice
MetaTables ==
    {<<>>, station_meta(515, 570), SubSeq(station_meta(515, 570), 1, 1),
     SubSeq(station_meta(515, 570), 1, 1) \o station_meta(499, 570)}

InitImport ==
    /\ app = "import"
    /\ \E monthly \in MonthlyTables, meta \in MetaTables :
          tables = [historic_weather |-> monthly, station_meta |-> meta]
    /\ input = <<>> /\ tab = 0 /\ deps = <<>> /\ stale = {}
    /\ recomputed = {} /\ invalidated = {} /\ lastChanged = "none"
    /\ started = <<>> /\ content = <<>> /\ pending = <<>> /\ steps = 0
    /\ decadeLog = {}
    /\ FrogIdle /\ SeasonIdle

NextImport == ImportAnnual \/ ImportData \/ ImportMonthly

SpecImport == InitImport /\ [][NextImport]_vars

(***************************************************************************)
(* The weather dashboard on more stations and more years, every nav panel  *)
(* opened with the controls as a user has left them: SpecRender.           *)
(***************************************************************************)
MaxStations == 11

\* one reading per station and year
AnnualOf(monthly) ==
    [i \in 1..Len(monthly) |-> [c \in AnnualCols |-> monthly[i][c]]]

TablesOf(monthly, meta) == import_tables(AnnualOf(monthly), monthly, meta)

\* MaxStations stations with one year of readings each
ManyStations ==
    TablesOf([i \in 1..MaxStations |->
                 [station |-> StationOrder[i], year |-> 1999, month |-> 1,
                  tmax |-> 10 + i, tmin |-> 5, rain |-> 100 * i, sun |-> 1000, af |-> 10]],
             [i \in 1..MaxStations |->
                 [station |-> StationOrder[i], station_name |-> StationOrder[i],
                  lat |-> 515, lng |-> -15]])

\* two stations of one region with three years of readings
ThreeYears ==
    TablesOf(<< [station |-> "s1", year |-> 1999, month |-> 1, tmax |-> 5, tmin |-> 1,
                 rain |-> 80, sun |-> 50, af |-> 9],
                [station |-> "s1", year |-> 2000, month |-> 1, tmax |-> 7, tmin |-> 2,
                 rain |-> 90, sun |-> 60, af |-> 8],
                [station |-> "s1", year |-> 2001, month |-> 1, tmax |-> 9, tmin |-> 3,
                 rain |-> 70, sun |-> 70, af |-> 7],
                [station |-> "s2", year |-> 1999, month |-> 1, tmax |-> 6, tmin |-> 0,
                 rain |-> 60, sun |-> 40, af |-> 12],
                [station |-> "s2", year |-> 2000, month |-> 1, tmax |-> NaN, tmin |-> 1,
                 rain |-> 65, sun |-> 45, af |-> 11],
                [station |-> "s2", year |-> 2001, month |-> 2, tmax |-> 11, tmin |-> 4,
                 rain |-> 50, sun |-> 90, af |-> 2] >>,
             station_meta(515, 520))

\* the first k stations, for every k
Prefixes(tbls) ==
    {SubSeq(sorted_stations(tbls), 1, k) : k \in 0..Len(sorted_stations(tbls))}

\* the controls as a user can have left them
RenderInputs(tbls) ==
    {[[[[WeatherInputs(tbls) EXCEPT !.ts_stations = ts] EXCEPT !.monthly_stations = ms]
            EXCEPT !.compare_years = cy] EXCEPT !.regional_year_range = ry] :
        ts \in Prefixes(tbls),
        ms \in {q \in Prefixes(tbls) : Len(q) <= 2},
        cy \in YearRanges(tbls), ry \in YearRanges(tbls)}

InitRender ==
    \E tbls \in {ManyStations, ThreeYears} :
        \E inp \in RenderInputs(tbls) : Start("weather", inp, tbls)

NextRender == SwitchTab

SpecRender == InitRender /\ [][NextRender]_vars

(***************************************************************************)
(* The weather dashboard on four years of readings, with equal yearly      *)
(* means and years without a value: SpecExtreme.                           *)
(***************************************************************************)
\* two stations of two regions.  rain: four different yearly means; tmax:
\* 2000 and 2001 have the same mean; tmin: no value in 2001; sun: the same
\* mean every year; af: no value in 1999 and 2002, the same in between
FourYears ==
    TablesOf(<< [station |-> "s1", year |-> 1999, month |-> 1, tmax |-> 14, tmin |-> 6,
                 rain |-> 800, sun |-> 100, af |-> NaN],
                [station |-> "s2", year |-> 1999, month |-> 1, tmax |-> 12, tmin |-> 4,
                 rain |-> 600, sun |-> 100, af |-> NaN],
                [station |-> "s1", year |-> 2000, month |-> 1, tmax |-> 15, tmin |-> 7,
                 rain |-> 900, sun |-> 100, af |-> 20],
                [station |-> "s2", year |-> 2000, month |-> 1, tmax |-> 15, tmin |-> NaN,
                 rain |-> 500, sun |-> 100, af |-> 20],
                [station |-> "s1", year |-> 2001, month |-> 1, tmax |-> 16, tmin |-> NaN,
                 rain |-> 400, sun |-> 100, af |-> 20],
                [station |-> "s2", year |-> 2001, month |-> 1, tmax |-> 14, tmin |-> NaN,
                 rain |-> 500, sun |-> 100, af |-> NaN],
                [station |-> "s1", year |-> 2002, month |-> 1, tmax |-> 17, tmin |-> 5,
                 rain |-> 1000, sun |-> 100, af |-> NaN],
                [station |-> "s2", year |-> 2002, month |-> 1, tmax |-> NaN, tmin |-> 3,
                 rain |-> 300, sun |-> 100, af |-> NaN] >>,
             station_meta(515, 570))

InitExtreme == StartWeather(FourYears)

NextExtreme == SetInput \/ SwitchTab

SpecExtreme == InitExtreme /\ [][NextExtreme]_vars

PrizeRows ==
    << [prize_genre |-> "fiction", gender |-> "woman", ethnicity_macro |-> "White British",
        uk_residence |-> "Yes", prize_year |-> 2000, highest_degree |-> "Bachelors",
        person_role |-> "winner", degree_institution |-> "Oxford",
        degree_field_category |-> "Arts"],
       [prize_genre |-> "fiction", gender |-> "Man ", ethnicity_macro |-> "Asian",
        uk_residence |-> "No", prize_year |-> 2000, highest_degree |-> "Masters",
        person_role |-> "shortlisted", degree_institution |-> "Oxford",
        degree_field_category |-> "Science"],
       [prize_genre |-> "poetry", gender |-> "non-binary", ethnicity_macro |-> NA,
        uk_residence |-> "Yes", prize_year |-> 2001, highest_degree |-> NA,
        person_role |-> "Winner", degree_institution |-> NA,
        degree_field_category |-> NA],
       [prize_genre |-> "poetry", gender |-> "F", ethnicity_macro |-> "Asian",
        uk_residence |-> "No", prize_year |-> 2001, highest_degree |-> "Bachelors",
        person_role |-> "shortlisted", degree_institution |-> "Cambridge",
        degree_field_category |-> "Arts"] >>

\* the CSV holds any of the rows above, in their order
PrizeTables ==
    {SelectSeq(PrizeRows, LAMBDA r : r \in S) : S \in SUBSET Range(PrizeRows)}

InitPrizes ==
    \E csv \in PrizeTables : Start("prizes", PrizesInputs, import_prizes(csv))

NextPrizes == SetInput \/ SwitchTab

SpecPrizes == InitPrizes /\ [][NextPrizes]_vars

(***************************************************************************)
(* Claims about the dashboards.                                            *)
(***************************************************************************)
Rendering(o) == o \in DOMAIN content /\ o \notin stale

\* the station-year rows of data for a region and a year
RegionYearRows(reg, y) ==
    {i \in 1..Len(tables.data.rows) :
        tables.data.rows[i].region = reg /\ tables.data.rows[i].year = y}

RECURSIVE TotalRain(_)
TotalRain(I) ==
    IF I = {} THEN 0
    ELSE LET i == CHOOSE i \in I : TRUE
         IN  tables.data.rows[i].rain + TotalRain(I \ {i})

SelectedYears == input.regional_year_range[1]..input.regional_year_range[2]

ShownRegionYears ==
    {k \in {<<tables.data.rows[i].region, tables.data.rows[i].year>> :
               i \in 1..Len(tables.data.rows)} : k[2] \in SelectedYears}

RainShown(k) == (CHOOSE g \in content.regional_trends.traces : g.key = k).value

RainTrendsShown ==
    /\ app = "weather" /\ Rendering("regional_trends")
    /\ input.regional_metric = "rain"

\* C3 as stated: with metric 'rain', the value regional_trends shows for a
\* region and a year inside the selected range is the sum of the annual rain
\* of the station-year rows of that region and year.
C3_RegionalSumOfRain ==
    RainTrendsShown =>
        /\ {g.key : g \in content.regional_trends.traces} = ShownRegionYears
        /\ \A k \in ShownRegionYears :
              RainShown(k).num = TotalRain(RegionYearRows(k[1], k[2])) * RainShown(k).den

\* C3: with metric 'rain', regional_trends shows one value for every region
\* and year that has rows inside the selected year range, and that value is
\* the arithmetic mean of the annual rain of the station-year rows of that
\* region and year: their sum divided by their number.
C3_RegionalMeanOfRain ==
    RainTrendsShown =>
        /\ {g.key : g \in content.regional_trends.traces} = ShownRegionYears
        /\ \A k \in ShownRegionYears :
              /\ RainShown(k).den > 0
              /\ RainShown(k).num * Cardinality(RegionYearRows(k[1], k[2])) =
                    TotalRain(RegionYearRows(k[1], k[2])) * RainShown(k).den

\* the year range has been narrowed and a shown region-year has two stations
C3_Witness ==
    /\ RainTrendsShown /\ lastChanged = "regional_year_range"
    /\ "regional_trends" \in recomputed
    /\ \E k \in ShownRegionYears : Cardinality(RegionYearRows(k[1], k[2])) = 2
    /\ \E i \in 1..Len(tables.data.rows) : tables.data.rows[i].year \notin SelectedYears

\* the outputs each control of the weather dashboard affects
AffectedOutputs ==
    [map_year |-> {"weather_map", "map_stats"},
     map_metric |-> {"weather_map", "map_stats"},
     regional_metric |-> {"regional_trends", "regional_rankings", "regional_stats_table"},
     regional_year_range |-> {"regional_trends", "regional_rankings", "regional_stats_table"},
     historic_metric |-> {"extreme_years_plot", "extreme_years_regional",
                          "extreme_years_summary"},
     top_n_years |-> {"extreme_years_plot", "extreme_years_regional",
                      "extreme_years_summary"},
     monthly_metric |-> {"monthly_pattern_plot", "monthly_change_heatmap"},
     monthly_stations |-> {"monthly_pattern_plot", "monthly_change_heatmap"},
     compare_years |-> {"monthly_pattern_plot"},
     ts_metric |-> {"timeseries_plot"},
     ts_stations |-> {"timeseries_plot"},
     select_random |-> {}, clear_selection |-> {},
     trend_metric |-> {"trend_plot", "distribution_plot"},
     trend_aggregation |-> {"trend_plot"},
     show_trend_line |-> {"trend_plot"}]

\* C4: in the weather dashboard, after any sequence of events, an output that
\* has executed has read exactly the controls listed for it, and a change of
\* a control invalidates only outputs listed for that control: those on the
\* visible nav panel are recomputed in the same step, the others stay marked
\* for recomputation, and no other output is recomputed.
C4_RecomputedIffReads ==
    app = "weather" =>
        /\ \A o \in Nodes(app) \ stale :
              deps[o] = {c \in DOMAIN AffectedOutputs : o \in AffectedOutputs[c]}
        /\ lastChanged # "none" =>
              /\ invalidated \subseteq AffectedOutputs[lastChanged]
              /\ ControlTab(app)[lastChanged] = tab =>
                    invalidated = AffectedOutputs[lastChanged]
              /\ recomputed = {o \in AffectedOutputs[lastChanged] : OutputTab(app)[o] = tab}
              /\ AffectedOutputs[lastChanged] \ recomputed \subseteq stale

\* after earlier events, compare_years changed and only monthly_pattern_plot ran
C4_Witness ==
    /\ app = "weather" /\ steps >= 2
    /\ lastChanged = "compare_years"
    /\ recomputed = {"monthly_pattern_plot"}
    /\ "monthly_change_heatmap" \notin stale

Filters == {"filter_gender", "filter_ethnicity", "filter_residence"}

EducationNodes ==
    {"filtered_data", "education_degree_plot", "education_institution_plot",
     "education_field_plot"}

\* the number of rows of the whole prizes table with the two column values
PrizeCount(col1, v1, col2, v2) ==
    Cardinality({i \in 1..Len(tables.prizes.rows) :
                    tables.prizes.rows[i][col1] = v1 /\ tables.prizes.rows[i][col2] = v2})

\* the bars of a genre or temporal plot counted over the whole prizes table
Unfiltered(col1, col2, shown) ==
    {b \in {[key |-> <<v1, v2>>, count |-> PrizeCount(col1, v1, col2, v2)] :
               v1 \in column(tables.prizes, col1),
               v2 \in column(tables.prizes, col2) \cap shown} : b.count > 0}

Ethnicities == column(tables.prizes, "ethnicity_macro") \ {NA}

\* C5: in the literary-prizes dashboard a change of filter_gender,
\* filter_ethnicity or filter_residence invalidates and recomputes exactly
\* filtered_data and the three education outputs; the four genre and temporal
\* outputs read no control and no Calc, and what they show is counted over the
\* whole prizes table whatever the filters are set to.
C5_FiltersRecomputeEducationOnly ==
    app = "prizes" =>
        /\ lastChanged \in Filters =>
              invalidated = EducationNodes /\ recomputed = EducationNodes
        /\ \A o \in {"genre_gender_plot", "genre_ethnicity_plot",
                     "temporal_gender_plot", "temporal_ethnicity_plot"} :
              Rendering(o) => deps[o] = {}
        /\ Rendering("genre_gender_plot") =>
              content.genre_gender_plot.traces =
                  Unfiltered("prize_genre", "gender_clean", {"Women", "Men"})
        /\ Rendering("genre_ethnicity_plot") =>
              content.genre_ethnicity_plot.traces =
                  Unfiltered("prize_genre", "ethnicity_macro", Ethnicities)
        /\ Rendering("temporal_gender_plot") =>
              content.temporal_gender_plot.traces =
                  Unfiltered("prize_year", "gender_clean", {"Women", "Men"})
        /\ Rendering("temporal_ethnicity_plot") =>
              content.temporal_ethnicity_plot.traces =
                  Unfiltered("prize_year", "ethnicity_macro", Ethnicities)

\* a filter that leaves out rows is set, and a temporal plot executes after it
C5_Witness ==
    /\ app = "prizes" /\ tab = 2
    /\ "temporal_gender_plot" \in recomputed
    /\ ~ "filtered_data" \in stale
    /\ Len(content.filtered_data.rows) < Len(tables.prizes.rows)
    /\ content.temporal_gender_plot.traces # {}

\* C6 as stated: after any sequence of input changes and recomputations the
\* module-level tables have the rows and the columns they had when the app
\* started.
C6_TablesUnchanged == app \in {"weather", "prizes"} => tables = started

AllWeatherRows == Range(tables.data.rows) \cup Range(tables.monthly_data.rows)

StationYears ==
    {<<tables.historic_weather[i].station, tables.historic_weather[i].year>> :
        i \in {j \in 1..Len(tables.historic_weather) :
                  tables.historic_weather[j].year # NaN}}

\* the non-missing monthly values of a column for one station and year
MonthlyValues(k, col) ==
    {i \in 1..Len(tables.historic_weather) :
        /\ tables.historic_weather[i].station = k[1]
        /\ tables.historic_weather[i].year = k[2]
        /\ tables.historic_weather[i][col] # NaN}

RECURSIVE SumOver(_, _)
SumOver(I, col) ==
    IF I = {} THEN 0
    ELSE LET i == CHOOSE i \in I : TRUE
         IN  tables.historic_weather[i][col] + SumOver(I \ {i}, col)

RowsFor(rows, k) == {i \in 1..Len(rows) : rows[i].station = k[1] /\ rows[i].year = k[2]}

\* annual_data has exactly one row per (station, year) pair of
\* historic_weather; in it rain, sun and af are the sums and tmax and tmin
\* the means of the non-missing monthly values
AnnualAggregates ==
    "annual_data" \in DOMAIN tables =>
        /\ \A i \in 1..Len(tables.annual_data) :
              <<tables.annual_data[i].station, tables.annual_data[i].year>> \in StationYears
        /\ \A k \in StationYears :
              /\ Cardinality(RowsFor(tables.annual_data, k)) = 1
              /\ \A i \in RowsFor(tables.annual_data, k) :
                    /\ \A col \in {"rain", "sun", "af"} :
                          tables.annual_data[i][col] = SumOver(MonthlyValues(k, col), col)
                    /\ \A col \in {"tmax", "tmin"} :
                          /\ tables.annual_data[i][col].den =
                                Cardinality(MonthlyValues(k, col))
                          /\ tables.annual_data[i][col].num =
                                SumOver(MonthlyValues(k, col), col)

\* C17: annual_data has one row per (station, year) pair of historic_weather
\* with the sums of rain, sun and af and the means of tmax and tmin of the
\* non-missing monthly values, and the left merge with station_meta keeps
\* exactly one row per (station, year) in data.
C17_AnnualRowsAndMerge ==
    /\ AnnualAggregates
    /\ "data" \in DOMAIN tables =>
          \A k \in StationYears : Cardinality(RowsFor(tables.data.rows, k)) = 1

\* the browser applies the oldest message in this step
Delivers(effect) ==
    /\ pending # <<>> /\ pending' = Tail(pending)
    /\ Head(pending).effect = effect

\* an effect sends a message in this step
Sends(effect) ==
    /\ Len(pending') = Len(pending) + 1
    /\ pending'[Len(pending')].effect = effect

\* min(5, number of stations) pairwise distinct stations of the station list
RandomChoice(q) ==
    /\ Len(q) = Min({5, Cardinality(stations_of(tables))})
    /\ \A i \in 1..Len(q) : q[i] \in stations_of(tables)
    /\ \A i, j \in 1..Len(q) : i # j => q[i] # q[j]

C19_ClearAll ==
    [][/\ input'.clear_selection # input.clear_selection =>
              /\ input'.clear_selection = input.clear_selection + 1
              /\ Sends("clear_selection")
              /\ pending' = Append(pending, pending'[Len(pending')])
              /\ pending'[Len(pending')].selected = <<>>
              /\ \A c \in DOMAIN input \ {"clear_selection"} : input'[c] = input[c]
       /\ Sends("clear_selection") => input'.clear_selection = input.clear_selection + 1
       /\ Delivers("clear_selection") =>
              /\ input'.ts_stations = <<>>
              /\ \A c \in DOMAIN input \ {"ts_stations"} : input'[c] = input[c]
              /\ "timeseries_plot" \notin stale' =>
                     content'.timeseries_plot = P("Please select at least one station")
       /\ (app' = "weather" /\ input'.ts_stations = <<>>
           /\ "timeseries_plot" \notin stale') =>
              content'.timeseries_plot = P("Please select at least one station")]_vars

\* two steps of the user, opening the panel and one click on 'Clear All',
\* and the message is shown in place of the chart
C19_Witness ==
    /\ app = "weather" /\ steps = 2 /\ input.clear_selection = 1
    /\ input.select_random = 0 /\ pending = <<>>
    /\ input.ts_stations = <<>>
    /\ "timeseries_plot" \in recomputed
    /\ content.timeseries_plot = P("Please select at least one station")

\* C12: timeseries_plot draws a chart if and only if between 1 and 10
\* stations are selected in ts_stations; with none it returns 'Please select
\* at least one station', with more than 10 'Please select no more than 10
\* stations', and in neither case is a trace drawn; a chart has one trace
\* per selected station.
C12_TimeseriesChartIff ==
    (app = "weather" /\ Rendering("timeseries_plot")) =>
        /\ content.timeseries_plot.kind = "figure" <=> Len(input.ts_stations) \in 1..10
        /\ Len(input.ts_stations) = 0 =>
              content.timeseries_plot = P("Please select at least one station")
        /\ Len(input.ts_stations) > 10 =>
              content.timeseries_plot = P("Please select no more than 10 stations")
        /\ content.timeseries_plot.kind # "figure" =>
              "traces" \notin DOMAIN content.timeseries_plot
        /\ content.timeseries_plot.kind = "figure" =>
              Len(content.timeseries_plot.traces) = Len(input.ts_stations)

\* eleven stations are selected and the panel shows the message
C12_Witness ==
    /\ app = "weather" /\ Rendering("timeseries_plot")
    /\ Len(input.ts_stations) = 11
    /\ "timeseries_plot" \in recomputed
    /\ content.timeseries_plot = P("Please select no more than 10 stations")

\* the monthly rows of the selected stations in the two years of the slider
ComparedRows ==
    {i \in 1..Len(tables.monthly_data.rows) :
        /\ \E k \in 1..Len(input.monthly_stations) :
              tables.monthly_data.rows[i].station = input.monthly_stations[k]
        /\ \/ tables.monthly_data.rows[i].year = input.compare_years[1]
           \/ tables.monthly_data.rows[i].year = input.compare_years[2]}

\* those of them for one month and year that have a value of the metric
ComparedAt(k) ==
    {i \in ComparedRows :
        /\ tables.monthly_data.rows[i].month = k[1]
        /\ tables.monthly_data.rows[i].year = k[2]
        /\ tables.monthly_data.rows[i][input.monthly_metric] # NaN}

RECURSIVE MonthlyTotal(_)
MonthlyTotal(I) ==
    IF I = {} THEN 0
    ELSE LET i == CHOOSE i \in I : TRUE
         IN  tables.monthly_data.rows[i][input.monthly_metric] + MonthlyTotal(I \ {i})

\* the years regional_trends shows
RegionalYearsShown == {g.key[2] : g \in content.regional_trends.traces}

\* C20: monthly_pattern_plot uses exactly the monthly rows of the selected
\* stations whose year is one of the two values of the compare_years slider:
\* it shows one mean per (month, year) of those rows, over those rows only,
\* and no year strictly between the handles; regional_trends shows every
\* year of the data from regional_year_range[0] to regional_year_range[1].
C20_ComparesTwoYears ==
    /\ (app = "weather" /\ Rendering("monthly_pattern_plot")) =>
          /\ content.monthly_pattern_plot.kind = "figure" <=> ComparedRows # {}
          /\ content.monthly_pattern_plot.kind = "figure" =>
                /\ {g.key : g \in content.monthly_pattern_plot.traces} =
                      {<<tables.monthly_data.rows[i].month, tables.monthly_data.rows[i].year>> :
                          i \in ComparedRows}
                /\ \A g \in content.monthly_pattern_plot.traces :
                      /\ g.key[2] \in {input.compare_years[1], input.compare_years[2]}
                      /\ g.value.den = Cardinality(ComparedAt(g.key))
                      /\ g.value.num = MonthlyTotal(ComparedAt(g.key))
    /\ (app = "weather" /\ Rendering("regional_trends")) =>
          RegionalYearsShown =
              {y \in years_of(tables) :
                  input.regional_year_range[1] <= y /\ y <= input.regional_year_range[2]}

\* both sliders span three years: the monthly comparison leaves out the
\* selected station's rows of the year in between, the regional plot shows
\* that year
C20_Witness ==
    /\ app = "weather" /\ Rendering("monthly_pattern_plot") /\ Rendering("regional_trends")
    /\ input.compare_years = <<1999, 2001>> /\ input.regional_year_range = <<1999, 2001>>
    /\ content.monthly_pattern_plot.kind = "figure"
    /\ \E i \in 1..Len(tables.monthly_data.rows) :
          /\ tables.monthly_data.rows[i].year = 2000
          /\ tables.monthly_data.rows[i].station \in Range(input.monthly_stations)
    /\ 2000 \notin {g.key[2] : g \in content.monthly_pattern_plot.traces}
    /\ 2000 \in RegionalYearsShown

ExtremeOutputs ==
    {"extreme_years_plot", "extreme_years_regional", "extreme_years_summary"}

\* the rows of data of a year that have a value of the selected metric
ValuesIn(y) ==
    {i \in 1..Len(tables.data.rows) :
        /\ tables.data.rows[i].year = y
        /\ tables.data.rows[i][input.historic_metric] # NaN}

RECURSIVE MetricTotal(_)
MetricTotal(I) ==
    IF I = {} THEN 0
    ELSE LET i == CHOOSE i \in I : TRUE
         IN  tables.data.rows[i][input.historic_metric] + MetricTotal(I \ {i})

\* the yearly mean of y is a number and that of z is missing or smaller
MeanAbove(y, z) ==
    /\ ValuesIn(y) # {}
    /\ \/ ValuesIn(z) = {}
       \/ MetricTotal(ValuesIn(y)) * Cardinality(ValuesIn(z)) >
              MetricTotal(ValuesIn(z)) * Cardinality(ValuesIn(y))

\* the yearly mean of y is a number and that of z is missing or larger
MeanBelow(y, z) ==
    /\ ValuesIn(y) # {}
    /\ \/ ValuesIn(z) = {}
       \/ MetricTotal(ValuesIn(y)) * Cardinality(ValuesIn(z)) <
              MetricTotal(ValuesIn(z)) * Cardinality(ValuesIn(y))

YearsOf(G) == {g.key[1] : g \in G}

\* C21: for every metric and top_n, whenever one of extreme_years_plot,
\* extreme_years_regional and extreme_years_summary is up to date all three
\* are; plot and summary then hold the same highest years and the same
\* lowest years with the same values, each set has min(top_n, number of
\* years) years, no year left out has a higher (lower) yearly mean than a
\* year of the highest (lowest) set, and extreme_years_regional shows exactly
\* the years of the highest set.
C21_ExtremeYearsAgree ==
    app = "weather" =>
        /\ ExtremeOutputs \cap stale \in {{}, ExtremeOutputs}
        /\ Rendering("extreme_years_plot") =>
              /\ content.extreme_years_plot.traces.top_years =
                    content.extreme_years_summary.top_years
              /\ content.extreme_years_plot.traces.low_years =
                    content.extreme_years_summary.low_years
              /\ YearsOf(content.extreme_years_regional.traces) =
                    YearsOf(content.extreme_years_plot.traces.top_years)
              /\ \A side \in {"top_years", "low_years"} :
                    /\ YearsOf(content.extreme_years_plot.traces[side]) \subseteq
                          years_of(tables)
                    /\ Cardinality(YearsOf(content.extreme_years_plot.traces[side])) =
                          Min({input.top_n_years, Cardinality(years_of(tables))})
                    /\ Cardinality(content.extreme_years_plot.traces[side]) =
                          Min({input.top_n_years, Cardinality(years_of(tables))})
              /\ \A y \in YearsOf(content.extreme_years_plot.traces.top_years) :
                    \A z \in years_of(tables) \
                             YearsOf(content.extreme_years_plot.traces.top_years) :
                        ~MeanAbove(z, y)
              /\ \A y \in YearsOf(content.extreme_years_plot.traces.low_years) :
                    \A z \in years_of(tables) \
                             YearsOf(content.extreme_years_plot.traces.low_years) :
                        ~MeanBelow(z, y)

\* the user has opened the panel, chosen another metric and then a smaller
\* top_n: the three outputs have run again, a year is left out on each
\* side, and the highest years are not the lowest years
C21_Witness ==
    /\ app = "weather" /\ steps = 3 /\ lastChanged = "top_n_years"
    /\ input.historic_metric = "tmax" /\ input.top_n_years = 3
    /\ recomputed = ExtremeOutputs
    /\ Cardinality(years_of(tables)) > 3
    /\ YearsOf(content.extreme_years_summary.top_years) #
          YearsOf(content.extreme_years_summary.low_years)
    /\ YearsOf(content.extreme_years_regional.traces) =
          YearsOf(content.extreme_years_summary.top_years)

====
